---- MODULE Spec2Model ----
(***************************************************************************)
(* Conversation Graph Engine of llm-graph (hook useChatGraph and the page  *)
(* component that drives it).                                              *)
(*                                                                         *)
(* The graph store is the pair of React state cells nodes / edges.  Every  *)
(* event handler runs to completion on the single UI thread, so one action *)
(* is one handler (all of its setNodes / setEdges updaters included); the  *)
(* only suspension point is the await of fetch inside handleSend, which is *)
(* modelled by a record in calls that a later Deliver step completes.      *)
(*                                                                         *)
(* Conventions                                                             *)
(*   - node.data.* is flattened into the node record;                      *)
(*   - ids are records: "root" is [pre |-> "root", n |-> 0], the template  *)
(*     string `input-${Date.now()}` is [pre |-> "input", n |-> now], and   *)
(*     `ai-${Date.now()}` is [pre |-> "ai", n |-> now];                    *)
(*   - a closure stored in node data (onSend / onCancel) is the record of  *)
(*     the values it captured, including the nodes / edges of the render   *)
(*     in which the handleSend it calls was created.                       *)
(***************************************************************************)
EXTENDS Integers, Sequences, FiniteSets, TLC

(***************************************************************************)
(* Bounds of the model.                                                    *)
(***************************************************************************)
MaxClock == 3          \* handlers that read Date.now() stop at this value

Texts == {"hi", "yo"}              \* prompts typed by the user (non-blank)
ReplyTexts == {"", "hello"}        \* values of the reply field of a 2xx body
DropPositions == {[x |-> 0, y |-> 0]}
MeasuredHeights == {0}             \* node.measured?.height, 0 = not measured
ClockSteps == {1}                  \* clock ticks between two handlers

(***************************************************************************)
(* Literals of the source.                                                 *)
(***************************************************************************)
Undefined == "undefined"                \* an absent optional string field
NullId == [pre |-> "null", n |-> 0]     \* null where a node id is expected
NoClosure == [kind |-> "undefined"]     \* data.onSend / data.onCancel absent
Thinking == "Thinking..."
NoResponse == "Error: No response"
CouldNotFetch == "Error: Could not fetch response."
Greeting == "Hello! I am your graph-based AI assistant. Drag from this node to start a new conversation branch."
RootId == [pre |-> "root", n |-> 0]

VARIABLES
  nodes,              \* React state: sequence of ChatNode
  edges,              \* React state: sequence of Edge
  clock,              \* last value returned by Date.now()
  connectingNodeId,   \* ref set by onConnectStart
  connectingHandleId, \* ref set by onConnectStart
  calls,              \* fetch("/api/chat") requests awaiting their response
  file,               \* last document handed to the file download sink
  focusedNodeId,      \* focusedNodeIdRef of the page component
  store,              \* localStorage item of the conversation, <<>> if none
  timer,              \* pending autosave timeout, <<>> if none
  chainOf,            \* history: id -> ids of the branch it was created on
  preBranch,          \* history: the graph before the startBranch just made
  last                \* history: the handler that ran last, with its inputs

vars == <<nodes, edges, clock, connectingNodeId, connectingHandleId, calls,
          file, focusedNodeId, store, timer, chainOf, preBranch, last>>

(***************************************************************************)
(* Array helpers (Array.prototype.find / filter / map).                    *)
(***************************************************************************)
Range(s) == {s[i] : i \in 1..Len(s)}

\* index of the first node with the given id, 0 when there is none
FindNode(ns, id) ==
  LET hits == {i \in 1..Len(ns) : ns[i].id = id} IN
  IF hits = {} THEN 0 ELSE CHOOSE i \in hits : \A j \in hits : i <= j

\* index of the first edge whose target is the given id, 0 when there is none
FindParentEdge(es, id) ==
  LET hits == {i \in 1..Len(es) : es[i].target = id} IN
  IF hits = {} THEN 0 ELSE CHOOSE i \in hits : \A j \in hits : i <= j

(***************************************************************************)
(* getInitialNodes                                                         *)
(***************************************************************************)
getInitialNodes(now) ==
  << [ id |-> RootId, type |-> "message",
       position |-> [x |-> 250, y |-> 50],
       role |-> "assistant", content |-> Greeting, timestamp |-> now,
       isInput |-> Undefined, label |-> Undefined, origin |-> Undefined,
       onSend |-> NoClosure, onCancel |-> NoClosure ] >>

(***************************************************************************)
(* getContextForNode: walk the first incoming edge of each node up to a    *)
(* node without one, collecting (role, content) of message nodes, oldest   *)
(* first.  fuel bounds the walk; a walk that would not end yields the      *)
(* history collected so far with diverged = TRUE.                          *)
(***************************************************************************)
RECURSIVE ContextWalk(_, _, _, _, _)
ContextWalk(currentNodeId, currentNodes, currentEdges, history, fuel) ==
  IF currentNodeId = NullId THEN [history |-> history, diverged |-> FALSE]
  ELSE IF fuel = 0 THEN [history |-> history, diverged |-> TRUE]
  ELSE
    LET i == FindNode(currentNodes, currentNodeId) IN
    IF i = 0 THEN [history |-> history, diverged |-> FALSE]
    ELSE
      LET node == currentNodes[i]
          h == IF node.type = "message"
               THEN <<[role |-> node.role, content |-> node.content]>> \o history
               ELSE history
          e == FindParentEdge(currentEdges, currentNodeId)
          next == IF e # 0 THEN currentEdges[e].source ELSE NullId
      IN ContextWalk(next, currentNodes, currentEdges, h, fuel - 1)

\* history.push in place of history.unshift: newest turn first
getContextForNodePush(nodeId, currentNodes, currentEdges) ==
  LET h == ContextWalk(nodeId, currentNodes, currentEdges, <<>>,
                       Len(currentNodes) + 1).history
  IN [i \in 1..Len(h) |-> h[Len(h) + 1 - i]]

getContextForNode(nodeId, currentNodes, currentEdges) ==
  ContextWalk(nodeId, currentNodes, currentEdges, <<>>,
              Len(currentNodes) + 1).history

\* the while loop of getContextForNode comes to an end: a walk that is still
\* at a node after Len(currentNodes) + 1 visits has met one node twice and
\* repeats from there for ever
getContextForNodeReturns(nodeId, currentNodes, currentEdges) ==
  ~ContextWalk(nodeId, currentNodes, currentEdges, <<>>,
               Len(currentNodes) + 1).diverged

(***************************************************************************)
(* addEdge of @xyflow/react as the hook calls it: the edge is appended     *)
(* unless it lacks an end or an edge with the same source, target and      *)
(* handles is already present.                                             *)
(***************************************************************************)
connectionExists(edge, es) ==
  \E i \in 1..Len(es) :
     /\ es[i].source = edge.source
     /\ es[i].target = edge.target
     /\ es[i].sourceHandle = edge.sourceHandle
     /\ es[i].targetHandle = edge.targetHandle

addEdge(edgeParams, es) ==
  IF edgeParams.source = NullId \/ edgeParams.target = NullId THEN es
  ELSE IF connectionExists(edgeParams, es) THEN es
  ELSE Append(es, edgeParams)

EdgeId(source, target) == [pre |-> "e", source |-> source, target |-> target]

(***************************************************************************)
(* What a handleSend created in the current render closes over: the nodes  *)
(* and edges of that render, of which getContextForNode reads these fields.*)
(***************************************************************************)
CaptureNodes(ns) ==
  [i \in 1..Len(ns) |-> [id |-> ns[i].id, type |-> ns[i].type,
                         role |-> ns[i].role, content |-> ns[i].content]]

CaptureEdges(es) ==
  [i \in 1..Len(es) |-> [source |-> es[i].source, target |-> es[i].target]]

\* the closure (text) => handleSend(text, parentId, inputNodeId)
SendClosure(kind, parentId, inputNodeId, ns, es) ==
  [kind |-> kind, parentId |-> parentId, inputNodeId |-> inputNodeId,
   nodes |-> CaptureNodes(ns), edges |-> CaptureEdges(es)]

CancelClosure(kind, inputId) == [kind |-> kind, inputId |-> inputId]

(***************************************************************************)
(* serializeState: the document of a snapshot.                             *)
(***************************************************************************)
\* getViewport(): the pan and zoom of the canvas, which no modelled handler
\* is observed through
getViewport == [x |-> 0, y |-> 0, zoom |-> 1]

\* a codec that leaves pending prompts out of the document
serializeStateMessagesOnly(ns, es) ==
  LET ms == SelectSeq(ns, LAMBDA n : n.type = "message") IN
  [ nodes |-> [i \in 1..Len(ms) |->
                 [ id |-> ms[i].id, type |-> ms[i].type,
                   position |-> ms[i].position,
                   data |-> [ role |-> ms[i].role, content |-> ms[i].content,
                              timestamp |-> ms[i].timestamp,
                              isInput |-> ms[i].isInput,
                              label |-> ms[i].label ] ]],
    edges |-> [i \in 1..Len(es) |->
                 [ id |-> es[i].id, source |-> es[i].source,
                   target |-> es[i].target, type |-> es[i].type,
                   markerEnd |-> es[i].markerEnd ]],
    viewport |-> getViewport,
    version |-> "1.0" ]

serializeState(ns, es) ==
  [ nodes |-> [i \in 1..Len(ns) |->
                 [ id |-> ns[i].id, type |-> ns[i].type,
                   position |-> ns[i].position,
                   data |-> [ role |-> ns[i].role, content |-> ns[i].content,
                              timestamp |-> ns[i].timestamp,
                              isInput |-> ns[i].isInput,
                              label |-> ns[i].label ] ]],
    edges |-> [i \in 1..Len(es) |->
                 [ id |-> es[i].id, source |-> es[i].source,
                   target |-> es[i].target, type |-> es[i].type,
                   markerEnd |-> es[i].markerEnd ]],
    viewport |-> getViewport,
    version |-> "1.0" ]

(***************************************************************************)
(* The autosave effect.  It runs after every render in which nodes or      *)
(* edges is a new array: the cleanup clears the timeout of the render      *)
(* before, and a new timeout is set whose callback calls the serializeState*)
(* of this render, which closes over the nodes and edges of this render.   *)
(* Updates made in one handler are batched into one render.  pending is   *)
(* the sequence of timeouts not yet run; elapsed tells whether the 500 ms  *)
(* of a timeout have passed.                                               *)
(***************************************************************************)
\* history: how many timeouts in a row were cleared before their delay had
\* passed, the one replaced now included (2 stands for two or more)
ClearedInARow(pending) ==
  IF pending = <<>> \/ pending[1].elapsed THEN 0
  ELSE IF pending[1].cleared >= 1 THEN 2 ELSE 1

\* an effect without the cleanup: the timeout of the render before stays
AutosaveEffectNoCleanup(pending, ns, es) ==
  Append(pending, [nodes |-> ns, edges |-> es, elapsed |-> FALSE,
                   cleared |-> 0])

\* an effect whose timeout sees the nodes of its render but not the edges
AutosaveEffectNodesOnly(pending, ns, es) ==
  <<[nodes |-> ns, edges |-> <<>>, elapsed |-> FALSE,
     cleared |-> ClearedInARow(pending)]>>

AutosaveEffect(pending, ns, es) ==
  <<[nodes |-> ns, edges |-> es, elapsed |-> FALSE,
     cleared |-> ClearedInARow(pending)]>>

(***************************************************************************)
(* Initial state: first render of useChatGraph.                            *)
(***************************************************************************)
NoOp == [op |-> "init", id |-> NullId, how |-> "", text |-> ""]

Init ==
  /\ nodes = getInitialNodes(0)
  /\ edges = <<>>
  /\ clock = 0
  /\ connectingNodeId = NullId
  /\ connectingHandleId = Undefined
  /\ calls = {}
  /\ file = <<>>
  /\ focusedNodeId = NullId
  /\ store = <<>>
  /\ timer = <<>>
  /\ chainOf = (RootId :> <<RootId>>)
  /\ preBranch = <<>>
  /\ last = NoOp

(***************************************************************************)
(* onConnectStart: a drag starts on the source handle of a message node    *)
(* (MessageNode renders one source handle, without id; the handles of      *)
(* InputNode are not connectable).                                         *)
(***************************************************************************)
\* a pointer that stays locked while a backend call is in flight
IdleAndQuiet == connectingNodeId = NullId /\ calls = {}

\* no connect drag is in progress: the pointer is free for another gesture
Idle == connectingNodeId = NullId

onConnectStart(nodeId) ==
  /\ Idle
  /\ \E i \in 1..Len(nodes) : nodes[i].id = nodeId /\ nodes[i].type = "message"
  /\ connectingNodeId' = nodeId
  /\ connectingHandleId' = Undefined
  /\ last' = [op |-> "connectStart", id |-> nodeId, how |-> "", text |-> ""]
  /\ preBranch' = <<>>
  /\ UNCHANGED <<focusedNodeId, store, timer>>
  /\ UNCHANGED <<nodes, edges, clock, calls, file, chainOf>>

(***************************************************************************)
(* onConnectEnd: the drag ends.  On the pane it creates the pending prompt *)
(* and its edge (startBranch); anywhere else it only clears the refs.      *)
(***************************************************************************)
TargetHandleFor(handleId) ==
  IF handleId = "left" THEN "right"
  ELSE IF handleId = "right" THEN "left" ELSE "top"

onConnectEnd(targetIsPane, position, now) ==
  /\ connectingNodeId # NullId
  /\ IF targetIsPane
     THEN
       /\ LET parentId == connectingNodeId
              handleId == IF connectingHandleId # Undefined
                          THEN connectingHandleId ELSE "bottom"
              inputId == [pre |-> "input", n |-> now]
              newNode ==
                [ id |-> inputId, type |-> "inputNode", position |-> position,
                  role |-> "user", content |-> "", timestamp |-> now,
                  isInput |-> "true", label |-> Undefined,
                  origin |-> "center-top",
                  onSend |-> SendClosure("live", parentId, inputId, nodes, edges),
                  onCancel |-> CancelClosure("live", inputId) ]
              newEdge ==
                [ id |-> EdgeId(parentId, inputId), source |-> parentId,
                  sourceHandle |-> handleId, target |-> inputId,
                  targetHandle |-> TargetHandleFor(handleId),
                  type |-> "smoothstep", markerEnd |-> "arrowclosed" ]
          IN /\ nodes' = Append(nodes, newNode)
             /\ edges' = addEdge(newEdge, edges)
             /\ chainOf' = (inputId :> Append(chainOf[parentId], inputId)) @@ chainOf
             /\ preBranch' = <<[nodes |-> nodes, edges |-> edges,
                                 parentId |-> parentId]>>
             /\ last' = [op |-> "startBranch", id |-> inputId, how |-> "",
                         text |-> ""]
       /\ clock' = now
     ELSE
       /\ last' = [op |-> "connectEnd", id |-> connectingNodeId, how |-> "",
                   text |-> ""]
       /\ preBranch' = <<>>
       /\ UNCHANGED <<nodes, edges, clock, chainOf>>
  /\ connectingNodeId' = NullId
  /\ connectingHandleId' = Undefined
  /\ timer' = IF targetIsPane THEN AutosaveEffect(timer, nodes', edges') ELSE timer
  /\ UNCHANGED <<focusedNodeId, store>>
  /\ UNCHANGED <<calls, file>>

(***************************************************************************)
(* onConnect: the drag started by onConnectStart ends on the target handle *)
(* of a message node (the handles of InputNode are not connectable), and   *)
(* React Flow hands the connection to onConnect, which adds it with        *)
(* addEdge; onConnectEnd follows.  The handles of MessageNode carry no id, *)
(* and addEdge derives the id of the edge from its two ends.  addEdge      *)
(* returns the same array when the connection exists, so nothing renders.  *)
(***************************************************************************)
ConnectionEdge(source, target) ==
  [ id |-> [pre |-> "xy-edge", source |-> source, target |-> target],
    source |-> source, sourceHandle |-> Undefined,
    target |-> target, targetHandle |-> Undefined,
    type |-> Undefined, markerEnd |-> Undefined ]

onConnect(target) ==
  /\ connectingNodeId # NullId
  /\ target # connectingNodeId
  /\ \E i \in 1..Len(nodes) : nodes[i].id = target /\ nodes[i].type = "message"
  /\ edges' = addEdge(ConnectionEdge(connectingNodeId, target), edges)
  /\ last' = [op |-> "connect", id |-> target,
              how |-> IF connectionExists(ConnectionEdge(connectingNodeId, target), edges)
                      THEN "exists" ELSE "added",
              text |-> ""]
  /\ preBranch' = <<>>
  /\ timer' = IF connectionExists(ConnectionEdge(connectingNodeId, target), edges)
              THEN timer ELSE AutosaveEffect(timer, nodes, edges')
  /\ UNCHANGED <<nodes, clock, connectingNodeId, connectingHandleId, calls,
                 file, focusedNodeId, store, chainOf>>

(***************************************************************************)
(* handleSend(text, parentId, inputNodeId), up to its await.  capNodes and *)
(* capEdges are the nodes / edges this handleSend closed over; now is the  *)
(* value of Date.now(); measured is inputNode.measured?.height.  The call  *)
(* of getContextForNode is synchronous and precedes the await: when its    *)
(* loop does not end, the handler never returns and nothing is committed.  *)
(***************************************************************************)
\* a conversion that builds the user message anew, with no timestamp
ConvertInputRestamped(ns, inputNodeId, text) ==
  [i \in 1..Len(ns) |->
     IF ns[i].id = inputNodeId
     THEN [ns[i] EXCEPT !.type = "message", !.role = "user",
                        !.content = text, !.isInput = "false",
                        !.timestamp = 0]
     ELSE ns[i]]

ConvertInput(ns, inputNodeId, text) ==
  [i \in 1..Len(ns) |->
     IF ns[i].id = inputNodeId
     THEN [ns[i] EXCEPT !.type = "message", !.role = "user",
                        !.content = text, !.isInput = "false"]
     ELSE ns[i]]

AssistantPosition(ns, inputNodeId, measured) ==
  LET i == FindNode(ns, inputNodeId) IN
  IF i # 0
  THEN [x |-> ns[i].position.x,
        y |-> ns[i].position.y + 150 + (IF measured # 0 THEN measured ELSE 50)]
  ELSE [x |-> 0, y |-> 0]

AssistantNode(assistantId, position, now) ==
  [ id |-> assistantId, type |-> "message", position |-> position,
    role |-> "assistant", content |-> Thinking, timestamp |-> now,
    isInput |-> Undefined, label |-> Undefined, origin |-> "center-top",
    onSend |-> NoClosure, onCancel |-> NoClosure ]

\* a slip that would attach the reply edge to the user node itself
AssistantEdgeToUser(userNodeId, assistantId) ==
  [ id |-> EdgeId(userNodeId, assistantId),
    source |-> userNodeId, sourceHandle |-> Undefined,
    target |-> userNodeId, targetHandle |-> Undefined,
    type |-> "smoothstep", markerEnd |-> "arrowclosed" ]

AssistantEdge(userNodeId, assistantId) ==
  [ id |-> EdgeId(userNodeId, assistantId),
    source |-> userNodeId, sourceHandle |-> Undefined,
    target |-> assistantId, targetHandle |-> Undefined,
    type |-> "smoothstep", markerEnd |-> "arrowclosed" ]

ContextMessages(text, parentId, capNodes, capEdges) ==
  Append(getContextForNode(parentId, capNodes, capEdges),
         [role |-> "user", content |-> text])

\* a handleSend that issues the call and leaves the placeholder and its edge
\* to the completion
handleSendCallFirst(text, parentId, inputNodeId, capNodes, capEdges, now, measured) ==
  LET assistantId == [pre |-> "ai", n |-> now]
  IN /\ nodes' = ConvertInput(nodes, inputNodeId, text)
     /\ edges' = edges
     /\ calls' = calls \cup
                   {[assistantId |-> assistantId,
                     messages |-> ContextMessages(text, parentId, capNodes, capEdges)]}
     /\ chainOf' = (assistantId :> Append(chainOf[inputNodeId], assistantId))
                     @@ chainOf
     /\ last' = [op |-> "submit", id |-> inputNodeId, how |-> "", text |-> text]
     /\ preBranch' = <<>>

handleSend(text, parentId, inputNodeId, capNodes, capEdges, now, measured) ==
  LET userNodeId == inputNodeId
      assistantId == [pre |-> "ai", n |-> now]
      position == AssistantPosition(nodes, inputNodeId, measured)
  IN /\ getContextForNodeReturns(parentId, capNodes, capEdges)
     /\ nodes' = Append(ConvertInput(nodes, inputNodeId, text),
                        AssistantNode(assistantId, position, now))
     /\ edges' = addEdge(AssistantEdge(userNodeId, assistantId), edges)
     /\ calls' = calls \cup
                   {[assistantId |-> assistantId,
                     messages |-> ContextMessages(text, parentId, capNodes, capEdges)]}
     /\ chainOf' = (assistantId :> Append(chainOf[inputNodeId], assistantId))
                     @@ chainOf
     /\ last' = [op |-> "submit", id |-> inputNodeId, how |-> "", text |-> text]
     /\ preBranch' = <<>>

(***************************************************************************)
(* InputNode: Enter with a non-blank draft calls data.onSend(text), text   *)
(* being the draft behind the prefix of the selected response mode.        *)
(***************************************************************************)
Submit(i, text, now, measured) ==
  /\ Idle
  /\ i \in 1..Len(nodes)
  /\ nodes[i].type = "inputNode"
  /\ nodes[i].onSend.kind # "undefined"
  /\ handleSend(text, nodes[i].onSend.parentId, nodes[i].onSend.inputNodeId,
                nodes[i].onSend.nodes, nodes[i].onSend.edges, now, measured)
  /\ clock' = now
  /\ timer' = AutosaveEffect(timer, nodes', edges')
  /\ UNCHANGED <<focusedNodeId, store>>
  /\ UNCHANGED <<connectingNodeId, connectingHandleId, file>>

(***************************************************************************)
(* InputNode: Escape with a blank draft calls data.onCancel().  The live   *)
(* closure (onConnectEnd) and the restored one (importState) both filter   *)
(* the node out of nodes and the edges into it out of edges.               *)
(***************************************************************************)
\* dropping every pending prompt in place of the cancelled one
RemoveInputNodes(ns, inputId) == SelectSeq(ns, LAMBDA n : n.type # "inputNode")

RemoveNodeById(ns, inputId) == SelectSeq(ns, LAMBDA n : n.id # inputId)

\* filtering on the wrong end of the edge
RemoveEdgesFrom(es, inputId) == SelectSeq(es, LAMBDA e : e.source # inputId)

RemoveEdgesTo(es, inputId) == SelectSeq(es, LAMBDA e : e.target # inputId)

\* a cancel whose node removal is rendered before its edge removal
CancelInTwoUpdates(i) ==
  /\ Idle
  /\ i \in 1..Len(nodes)
  /\ nodes[i].type = "inputNode"
  /\ nodes[i].onCancel.kind # "undefined"
  /\ LET inputId == nodes[i].onCancel.inputId IN
       /\ nodes' = RemoveNodeById(nodes, inputId)
       /\ edges' = edges
       /\ last' = [op |-> "cancel", id |-> inputId,
                   how |-> nodes[i].onCancel.kind, text |-> ""]
       /\ preBranch' = <<>>
  /\ timer' = AutosaveEffect(timer, nodes', edges')
  /\ UNCHANGED <<focusedNodeId, store>>
  /\ UNCHANGED <<clock, connectingNodeId, connectingHandleId, calls, file,
                 chainOf>>

Cancel(i) ==
  /\ Idle
  /\ i \in 1..Len(nodes)
  /\ nodes[i].type = "inputNode"
  /\ nodes[i].onCancel.kind # "undefined"
  /\ LET inputId == nodes[i].onCancel.inputId IN
       /\ nodes' = RemoveNodeById(nodes, inputId)
       /\ edges' = RemoveEdgesTo(edges, inputId)
       /\ last' = [op |-> "cancel", id |-> inputId,
                   how |-> nodes[i].onCancel.kind, text |-> ""]
       /\ preBranch' = IF last.op = "startBranch" /\ last.id = inputId
                       THEN preBranch ELSE <<>>
  /\ timer' = AutosaveEffect(timer, nodes', edges')
  /\ UNCHANGED <<focusedNodeId, store>>
  /\ UNCHANGED <<clock, connectingNodeId, connectingHandleId, calls, file,
                 chainOf>>

(***************************************************************************)
(* InputNode.handleKeyDown: Escape in the textarea of a pending prompt.    *)
(* draft is the text state of the component; a draft that trims to the     *)
(* empty string calls data.onCancel(), any other draft leaves the key      *)
(* without effect.                                                         *)
(***************************************************************************)
Drafts == {"", " ", "hi", " hi "}       \* contents of the textarea

\* String.prototype.trim on the drafts above
Trim(draft) ==
  IF draft \in {"", " "} THEN "" ELSE IF draft = " hi " THEN "hi" ELSE draft

\* an Escape that cancels whatever the textarea holds
InputNodeEscapeAnyDraft(i, draft) == Cancel(i)

InputNodeEscape(i, draft) ==
  /\ Trim(draft) = ""
  /\ Cancel(i)

(***************************************************************************)
(* POST of the /api/chat route: 400 without a messages array, 500 when the *)
(* model call throws, else 200 with the reply.  completion is the outcome  *)
(* of openai.chat.completions.create.                                      *)
(***************************************************************************)
POST(body, completion) ==
  IF "messages" \notin DOMAIN body
  THEN [status |-> 400, reply |-> Undefined, error |-> "Messages array is required"]
  ELSE IF completion.throws
  THEN [status |-> 500, reply |-> Undefined, error |-> "Internal Server Error"]
  ELSE [status |-> 200, reply |-> completion.content, error |-> Undefined]

Completions ==
  {[throws |-> FALSE, content |-> r] : r \in ReplyTexts}
    \cup {[throws |-> TRUE, content |-> ""]}

(***************************************************************************)
(* handleSend after its await: the content written to the assistant node.  *)
(* network = FALSE is a rejected fetch (catch branch).                     *)
(***************************************************************************)
\* one error text for every failure
ReplyContentFolded(network, response) ==
  IF ~network THEN CouldNotFetch
  ELSE IF response.reply # Undefined /\ response.reply # ""
       THEN response.reply
       ELSE CouldNotFetch

ReplyContent(network, response) ==
  IF ~network THEN CouldNotFetch
  ELSE IF response.reply # Undefined /\ response.reply # ""
       THEN response.reply
       ELSE NoResponse

\* a write that is skipped while a pending prompt is open somewhere
WriteContentUnlessPending(ns, assistantId, content) ==
  IF \E i \in 1..Len(ns) : ns[i].type = "inputNode" THEN ns
  ELSE [i \in 1..Len(ns) |->
          IF ns[i].id = assistantId THEN [ns[i] EXCEPT !.content = content]
          ELSE ns[i]]

\* a completion that takes the assistant node out of the graph on an error
WriteContentDropOnError(ns, assistantId, content) ==
  IF content \in {NoResponse, CouldNotFetch}
  THEN SelectSeq(ns, LAMBDA n : n.id # assistantId)
  ELSE [i \in 1..Len(ns) |->
          IF ns[i].id = assistantId THEN [ns[i] EXCEPT !.content = content]
          ELSE ns[i]]

\* an upsert: a node that is absent is appended with the content
WriteContentUpsert(ns, assistantId, content) ==
  IF \E i \in 1..Len(ns) : ns[i].id = assistantId
  THEN [i \in 1..Len(ns) |->
          IF ns[i].id = assistantId THEN [ns[i] EXCEPT !.content = content]
          ELSE ns[i]]
  ELSE Append(ns, [ id |-> assistantId, type |-> "message",
                    position |-> [x |-> 0, y |-> 0], role |-> "assistant",
                    content |-> content, timestamp |-> 0,
                    isInput |-> Undefined, label |-> Undefined,
                    origin |-> Undefined,
                    onSend |-> NoClosure, onCancel |-> NoClosure ])

\* matching the placeholder text in place of the id
WriteContentAllThinking(ns, assistantId, content) ==
  [i \in 1..Len(ns) |->
     IF ns[i].content = Thinking THEN [ns[i] EXCEPT !.content = content]
     ELSE ns[i]]

\* matching on the node type in place of the node id
WriteContentByType(ns, assistantId, content) ==
  [i \in 1..Len(ns) |->
     IF ns[i].type = "message"
     THEN [ns[i] EXCEPT !.content = content]
     ELSE ns[i]]

\* data: { content: reply } in place of data: { ...n.data, content: reply }
WriteContentReplaceData(ns, assistantId, content) ==
  [i \in 1..Len(ns) |->
     IF ns[i].id = assistantId
     THEN [ns[i] EXCEPT !.content = content, !.role = Undefined,
                        !.timestamp = 0]
     ELSE ns[i]]

WriteContent(ns, assistantId, content) ==
  [i \in 1..Len(ns) |->
     IF ns[i].id = assistantId THEN [ns[i] EXCEPT !.content = content]
     ELSE ns[i]]

Deliver(c, network, completion) ==
  /\ c \in calls
  /\ LET response == POST([messages |-> c.messages], completion) IN
       /\ nodes' = WriteContent(nodes, c.assistantId,
                                ReplyContent(network, response))
       /\ last' = [op |-> "deliver", id |-> c.assistantId,
                   how |-> IF ~network THEN "transport"
                           ELSE IF response.status = 200 THEN "reply"
                           ELSE "rejected",
                   text |-> IF network /\ response.status = 200
                            THEN response.reply ELSE ""]
  /\ calls' = calls \ {c}
  /\ preBranch' = <<>>
  /\ timer' = AutosaveEffect(timer, nodes', edges)
  /\ UNCHANGED <<focusedNodeId, store>>
  /\ UNCHANGED <<edges, clock, connectingNodeId, connectingHandleId, file,
                 chainOf>>

(***************************************************************************)
(* Deleting a node on the canvas: React Flow reports the removal of the    *)
(* node through onNodesChange and of its connected edges through           *)
(* onEdgesChange, both applied by useNodesState / useEdgesState.           *)
(***************************************************************************)
DeleteNode(id) ==
  /\ Idle
  /\ \E i \in 1..Len(nodes) : nodes[i].id = id
  /\ nodes' = SelectSeq(nodes, LAMBDA n : n.id # id)
  /\ edges' = SelectSeq(edges, LAMBDA e : e.source # id /\ e.target # id)
  /\ last' = [op |-> "delete", id |-> id, how |-> "", text |-> ""]
  /\ preBranch' = <<>>
  /\ timer' = AutosaveEffect(timer, nodes', edges')
  /\ UNCHANGED <<focusedNodeId, store>>
  /\ UNCHANGED <<clock, connectingNodeId, connectingHandleId, calls, file,
                 chainOf>>

(***************************************************************************)
(* Dragging a node on the canvas.  React Flow reports the new position     *)
(* through onNodesChange (applied by useNodesState), onNodeDragStart       *)
(* records the node as focused, and onNodeDrag recomputes the handles of   *)
(* the edges at the dragged node from the positions of their two ends: the *)
(* dragged node as React Flow passes it, the other end as found in the     *)
(* nodes of the render.  No node of the model is measured, so every node   *)
(* counts as 300 wide and 100 high.                                        *)
(***************************************************************************)
DragPositions == {[x |-> 400, y |-> 0], [x |-> -400, y |-> 300]}

Abs(v) == IF v < 0 THEN -v ELSE v

getOptimalHandles(sourceNode, targetNode) ==
  LET dx == (targetNode.position.x + 150) - (sourceNode.position.x + 150)
      dy == (targetNode.position.y + 50) - (sourceNode.position.y + 50)
  IN IF Abs(dx) > Abs(dy)
     THEN IF dx > 0 THEN [source |-> "right", target |-> "left"]
                    ELSE [source |-> "left", target |-> "right"]
     ELSE [source |-> "bottom", target |-> "top"]

FinalTargetHandle(targetNode, target) ==
  IF targetNode.type = "message" /\ target \in {"left", "right"}
  THEN IF target = "left" THEN "left-target" ELSE "right-target"
  ELSE target

MoveNode(ns, id, position) ==
  [i \in 1..Len(ns) |->
     IF ns[i].id = id THEN [ns[i] EXCEPT !.position = position] ELSE ns[i]]

\* a rerouting that ties the edge to the dragged node at both ends
RerouteEdgeOntoNode(edge, node, ns) ==
  [edge EXCEPT !.target = node.id]

RerouteEdge(edge, node, ns) ==
  IF edge.source = node.id \/ edge.target = node.id
  THEN LET s == FindNode(ns, edge.source)
           t == FindNode(ns, edge.target)
       IN IF (edge.source = node.id \/ s # 0) /\ (edge.target = node.id \/ t # 0)
          THEN LET sourceNode == IF edge.source = node.id THEN node ELSE ns[s]
                   targetNode == IF edge.target = node.id THEN node ELSE ns[t]
                   h == getOptimalHandles(sourceNode, targetNode)
                   finalTargetHandle == FinalTargetHandle(targetNode, h.target)
               IN IF edge.sourceHandle # h.source
                     \/ edge.targetHandle # finalTargetHandle
                  THEN [edge EXCEPT !.sourceHandle = h.source,
                                    !.targetHandle = finalTargetHandle]
                  ELSE edge
          ELSE edge
  ELSE edge

onNodeDrag(id, position) ==
  /\ Idle
  /\ \E i \in 1..Len(nodes) : nodes[i].id = id
  /\ nodes[FindNode(nodes, id)].position # position
  /\ LET node == [nodes[FindNode(nodes, id)] EXCEPT !.position = position] IN
       /\ nodes' = MoveNode(nodes, id, position)
       /\ edges' = [i \in 1..Len(edges) |-> RerouteEdge(edges[i], node, nodes)]
  /\ focusedNodeId' = id
  /\ last' = [op |-> "drag", id |-> id, how |-> "", text |-> ""]
  /\ preBranch' = <<>>
  /\ timer' = AutosaveEffect(timer, nodes', edges')
  /\ UNCHANGED <<clock, connectingNodeId, connectingHandleId, calls, file,
                 store, chainOf>>

(***************************************************************************)
(* startNewConversation (handleStartNew confirmed).                        *)
(***************************************************************************)
\* a reset that leaves the stored document of the conversation before
startNewConversationKeepStore(now) ==
  /\ Idle
  /\ nodes' = getInitialNodes(now)
  /\ edges' = <<>>
  /\ clock' = now
  /\ last' = [op |-> "startNew", id |-> RootId, how |-> "", text |-> ""]
  /\ preBranch' = <<>>
  /\ timer' = AutosaveEffect(timer, nodes', edges')
  /\ UNCHANGED <<focusedNodeId, store>>
  /\ UNCHANGED <<connectingNodeId, connectingHandleId, calls, file,
                 chainOf>>

startNewConversation(now) ==
  /\ Idle
  /\ nodes' = getInitialNodes(now)
  /\ edges' = <<>>
  /\ clock' = now
  /\ last' = [op |-> "startNew", id |-> RootId, how |-> "", text |-> ""]
  /\ preBranch' = <<>>
  /\ store' = <<>>
  /\ timer' = AutosaveEffect(timer, nodes', edges')
  /\ UNCHANGED focusedNodeId
  /\ UNCHANGED <<connectingNodeId, connectingHandleId, calls, file,
                 chainOf>>

(***************************************************************************)
(* Persistence codec.  A JSON text is the object it denotes, in which a    *)
(* property whose value was undefined is absent (JSON.stringify drops it); *)
(* Prop reads a property of a parsed object.                               *)
(***************************************************************************)
DropUndefined(obj, optional) ==
  [f \in {g \in DOMAIN obj : g \notin optional \/ obj[g] # Undefined} |-> obj[f]]

JSONstringify(state) ==
  [ nodes |-> [i \in 1..Len(state.nodes) |->
                 [state.nodes[i] EXCEPT
                    !.data = DropUndefined(@, {"isInput", "label"})]],
    edges |-> [i \in 1..Len(state.edges) |->
                 DropUndefined(state.edges[i], {"type", "markerEnd"})],
    viewport |-> state.viewport,
    version |-> state.version ]

Prop(obj, f) == IF f \in DOMAIN obj THEN obj[f] ELSE Undefined

\* node.id.replace("input-", "")
StripInputPrefix(id) == IF id.pre = "input" THEN [pre |-> "", n |-> id.n] ELSE id

\* the nodes importState builds; ns / es are the nodes / edges closed over by
\* the handleSend that importState refers to
restoredNodes(state, ns, es) ==
  [i \in 1..Len(state.nodes) |->
     LET node == state.nodes[i]
         isInput == Prop(node.data, "isInput")
     IN [ id |-> node.id, type |-> node.type, position |-> node.position,
          role |-> node.data.role, content |-> node.data.content,
          timestamp |-> node.data.timestamp,
          isInput |-> isInput, label |-> Prop(node.data, "label"),
          origin |-> Prop(node, "origin"),
          onSend |-> IF isInput = "true"
                     THEN SendClosure("restored", StripInputPrefix(node.id),
                                      node.id, ns, es)
                     ELSE NoClosure,
          onCancel |-> IF isInput = "true"
                       THEN CancelClosure("restored", node.id)
                       ELSE NoClosure ]]

restoredEdges(state) ==
  [i \in 1..Len(state.edges) |->
     LET edge == state.edges[i] IN
     [ id |-> edge.id, source |-> edge.source,
       sourceHandle |-> Undefined, target |-> edge.target,
       targetHandle |-> Undefined,
       type |-> IF Prop(edge, "type") # Undefined
                THEN edge.type ELSE "smoothstep",
       markerEnd |-> IF Prop(edge, "markerEnd") # Undefined
                     THEN edge.markerEnd ELSE "arrowclosed" ]]

\* JSON.parse(text) throws a SyntaxError on a text marked syntaxError
ParsesAsJSON(text) == "syntaxError" \notin DOMAIN text

\* Array.isArray(state[f]): a document lists under notArray the properties
\* whose value is a string, a number or an object in place of an array
IsArray(state, f) ==
  IF "notArray" \in DOMAIN state THEN f \notin state.notArray ELSE TRUE

\* every entry of state.nodes has its data record (node.data.role is read)
NodeEntriesHaveData(state) ==
  \A i \in 1..Len(state.nodes) : "data" \in DOMAIN state.nodes[i]

\* a restore that commits the nodes as soon as they are mapped
importStateEager(jsonString, ns, es) ==
  LET failed == [ok |-> FALSE, nodes |-> ns, edges |-> es, viewport |-> <<>>]
      state == jsonString
  IN
  IF ~ParsesAsJSON(jsonString) THEN failed
  ELSE IF "nodes" \notin DOMAIN state \/ "edges" \notin DOMAIN state THEN failed
  ELSE IF ~IsArray(state, "nodes") \/ ~NodeEntriesHaveData(state) THEN failed
  ELSE IF ~IsArray(state, "edges")
  THEN [failed EXCEPT !.nodes = restoredNodes(state, ns, es)]
  ELSE [ok |-> TRUE, nodes |-> restoredNodes(state, ns, es),
        edges |-> restoredEdges(state),
        viewport |-> IF "viewport" \in DOMAIN state
                     THEN <<state.viewport>> ELSE <<>>]

\* importState(jsonString): the value returned, the snapshot committed and
\* the calls of setViewport made.  Every throw (JSON.parse, the format test,
\* .map on a value that is no array, node.data.role on an entry without
\* data) happens before setNodes and lands in the catch branch.
importState(jsonString, ns, es) ==
  LET failed == [ok |-> FALSE, nodes |-> ns, edges |-> es, viewport |-> <<>>]
      state == jsonString
  IN
  IF ~ParsesAsJSON(jsonString) THEN failed
  ELSE IF "nodes" \notin DOMAIN state \/ "edges" \notin DOMAIN state THEN failed
  ELSE IF ~IsArray(state, "nodes") \/ ~NodeEntriesHaveData(state) THEN failed
  ELSE IF ~IsArray(state, "edges") THEN failed
  ELSE [ok |-> TRUE, nodes |-> restoredNodes(state, ns, es),
        edges |-> restoredEdges(state),
        viewport |-> IF "viewport" \in DOMAIN state
                     THEN <<state.viewport>> ELSE <<>>]

(***************************************************************************)
(* exportState: the serialized snapshot goes to the download sink.         *)
(***************************************************************************)
exportState ==
  /\ Idle
  /\ file' = <<JSONstringify(serializeState(nodes, edges))>>
  /\ last' = [op |-> "export", id |-> NullId, how |-> "", text |-> ""]
  /\ preBranch' = <<>>
  /\ UNCHANGED <<focusedNodeId, store, timer>>
  /\ UNCHANGED <<nodes, edges, clock, connectingNodeId,
                 connectingHandleId, calls, chainOf>>

(***************************************************************************)
(* handleFileChange: the user picks an exported file; its text goes to     *)
(* importState.                                                            *)
(***************************************************************************)
handleFileChange ==
  /\ Idle
  /\ file # <<>>
  /\ LET r == importState(file[1], nodes, edges) IN
       /\ nodes' = r.nodes
       /\ edges' = r.edges
       /\ last' = [op |-> "import", id |-> NullId,
                   how |-> IF r.ok THEN "ok" ELSE "failed", text |-> ""]
  /\ preBranch' = <<>>
  /\ timer' = IF last'.how = "ok" THEN AutosaveEffect(timer, nodes', edges') ELSE timer
  /\ UNCHANGED <<focusedNodeId, store>>
  /\ UNCHANGED <<clock, connectingNodeId, connectingHandleId, calls, file,
                 chainOf>>

\* files that are not documents of this program: the exported document cut
\* off, without one of its fields (absent or null), with a field that is no
\* array, or with a node entry (the last) that has no data record
Damages ==
  {"syntax", "noNodes", "noEdges", "nodesNotArray", "edgesNotArray",
   "nodeWithoutData"}

WithoutField(obj, f) == [g \in DOMAIN obj \ {f} |-> obj[g]]

Damaged(kind, doc) ==
  IF kind = "syntax" THEN [syntaxError |-> TRUE]
  ELSE IF kind = "noNodes" THEN WithoutField(doc, "nodes")
  ELSE IF kind = "noEdges" THEN WithoutField(doc, "edges")
  ELSE IF kind = "nodesNotArray" THEN doc @@ [notArray |-> {"nodes"}]
  ELSE IF kind = "edgesNotArray" THEN doc @@ [notArray |-> {"edges"}]
  ELSE [doc EXCEPT !.nodes[Len(doc.nodes)] = WithoutField(@, "data")]

\* handleFileChange on such a file
handleFileChangeDamaged(kind) ==
  /\ Idle
  /\ file # <<>>
  /\ kind = "nodeWithoutData" => Len(file[1].nodes) > 0
  /\ LET r == importState(Damaged(kind, file[1]), nodes, edges) IN
       /\ nodes' = r.nodes
       /\ edges' = r.edges
       /\ last' = [op |-> "import", id |-> NullId,
                   how |-> IF r.ok THEN "ok" ELSE "failed", text |-> kind]
  /\ preBranch' = <<>>
  /\ timer' = IF last'.how = "ok" THEN AutosaveEffect(timer, nodes', edges') ELSE timer
  /\ UNCHANGED <<focusedNodeId, store>>
  /\ UNCHANGED <<clock, connectingNodeId, connectingHandleId, calls, file,
                 chainOf>>

(***************************************************************************)
(* Process start: the first render of useChatGraph followed by its mount   *)
(* effects.  The autosave effect runs first and does nothing, isInitialized*)
(* being false; the load effect reads the stored item, hands it to the     *)
(* importState of this first render and sets isInitialized.  A successful  *)
(* import renders again, and the autosave effect of that render starts a   *)
(* timeout.  Calls, refs and timeouts of the process before are gone; the  *)
(* stored item and the downloaded file stay.                               *)
(***************************************************************************)
\* a start that never reads the stored item
mountWithoutRestore(now) ==
  /\ nodes' = getInitialNodes(now)
  /\ edges' = <<>>
  /\ timer' = <<>>
  /\ last' = [op |-> "mount", id |-> NullId, how |-> "empty", text |-> ""]
  /\ clock' = now
  /\ calls' = {}
  /\ connectingNodeId' = NullId
  /\ connectingHandleId' = Undefined
  /\ focusedNodeId' = NullId
  /\ preBranch' = <<>>
  /\ UNCHANGED <<file, store, chainOf>>

mount(now) ==
  /\ LET initial == getInitialNodes(now)
         r == IF store = <<>>
              THEN [ok |-> FALSE, nodes |-> initial, edges |-> <<>>,
                    viewport |-> <<>>]
              ELSE importState(store[1], initial, <<>>)
     IN /\ nodes' = r.nodes
        /\ edges' = r.edges
        /\ timer' = IF r.ok THEN AutosaveEffect(<<>>, r.nodes, r.edges)
                    ELSE <<>>
        /\ last' = [op |-> "mount", id |-> NullId,
                    how |-> IF store = <<>> THEN "empty"
                            ELSE IF r.ok THEN "ok" ELSE "failed",
                    text |-> ""]
  /\ clock' = now
  /\ calls' = {}
  /\ connectingNodeId' = NullId
  /\ connectingHandleId' = Undefined
  /\ focusedNodeId' = NullId
  /\ preBranch' = <<>>
  /\ UNCHANGED <<file, store, chainOf>>

\* the stored item is replaced, outside this program, by a text that is not
\* a document of it (localStorage is writable by every script of the origin)
storeDamaged(kind) ==
  /\ store # <<>>
  /\ importState(store[1], <<>>, <<>>).ok
  /\ kind = "nodeWithoutData" => Len(store[1].nodes) > 0
  /\ store' = <<Damaged(kind, store[1])>>
  /\ last' = [op |-> "damage", id |-> NullId, how |-> "", text |-> kind]
  /\ preBranch' = <<>>
  /\ UNCHANGED <<nodes, edges, clock, connectingNodeId, connectingHandleId,
                 calls, file, focusedNodeId, timer, chainOf>>

(***************************************************************************)
(* Process start in its two steps.  firstRender is the first render of     *)
(* useChatGraph with the autosave effect of that render, which finds       *)
(* isInitialized false and sets no timeout; loadOnMount is the load effect *)
(* of the same commit, which reads the stored item, hands it to            *)
(* importState and sets isInitialized.  Both effects run in one flush, so  *)
(* no other handler runs between the two steps; isInitialized is false     *)
(* exactly in the state between them.                                      *)
(***************************************************************************)
isInitialized == last.op # "render"

\* a first render whose autosave effect does not wait for isInitialized
firstRenderUngated(now) ==
  /\ nodes' = getInitialNodes(now)
  /\ edges' = <<>>
  /\ timer' = AutosaveEffect(<<>>, nodes', edges')
  /\ last' = [op |-> "render", id |-> NullId, how |-> "", text |-> ""]
  /\ clock' = now
  /\ calls' = {}
  /\ connectingNodeId' = NullId
  /\ connectingHandleId' = Undefined
  /\ focusedNodeId' = NullId
  /\ preBranch' = <<>>
  /\ UNCHANGED <<file, store, chainOf>>

firstRender(now) ==
  /\ nodes' = getInitialNodes(now)
  /\ edges' = <<>>
  /\ timer' = <<>>
  /\ last' = [op |-> "render", id |-> NullId, how |-> "", text |-> ""]
  /\ clock' = now
  /\ calls' = {}
  /\ connectingNodeId' = NullId
  /\ connectingHandleId' = Undefined
  /\ focusedNodeId' = NullId
  /\ preBranch' = <<>>
  /\ UNCHANGED <<file, store, chainOf>>

loadOnMount ==
  /\ ~isInitialized
  /\ LET r == IF store = <<>>
              THEN [ok |-> FALSE, nodes |-> nodes, edges |-> edges,
                    viewport |-> <<>>]
              ELSE importState(store[1], nodes, edges)
     IN /\ nodes' = r.nodes
        /\ edges' = r.edges
        /\ timer' = IF r.ok THEN AutosaveEffect(timer, r.nodes, r.edges)
                    ELSE timer
        /\ last' = [op |-> "load", id |-> NullId,
                    how |-> IF store = <<>> THEN "empty"
                            ELSE IF r.ok THEN "ok" ELSE "failed",
                    text |-> ""]
  /\ preBranch' = <<>>
  /\ UNCHANGED <<clock, connectingNodeId, connectingHandleId, calls, file,
                 focusedNodeId, store, chainOf>>

(***************************************************************************)
(* Writes to localStorage: the callback of the autosave timeout, once its  *)
(* delay has passed, and saveToLocalStorage (onMoveEnd of the canvas).     *)
(***************************************************************************)
\* 500 ms pass without a new render of nodes or edges
TimeoutElapses ==
  /\ timer # <<>>
  /\ ~timer[1].elapsed
  /\ timer' = [timer EXCEPT ![1].elapsed = TRUE]
  /\ last' = [op |-> "elapse", id |-> NullId, how |-> "", text |-> ""]
  /\ preBranch' = <<>>
  /\ UNCHANGED <<nodes, edges, clock, connectingNodeId, connectingHandleId,
                 calls, file, focusedNodeId, store, chainOf>>

\* a callback that writes only while nothing is stored
AutosaveTimeoutKeepFirst ==
  /\ timer # <<>>
  /\ timer[1].elapsed
  /\ store' = IF store = <<>>
              THEN <<JSONstringify(serializeState(timer[1].nodes, timer[1].edges))>>
              ELSE store
  /\ timer' = Tail(timer)
  /\ last' = [op |-> "autosave", id |-> NullId,
              how |-> IF timer[1].cleared = 2 THEN "burst" ELSE "", text |-> ""]
  /\ preBranch' = <<>>
  /\ UNCHANGED <<nodes, edges, clock, connectingNodeId, connectingHandleId,
                 calls, file, focusedNodeId, chainOf>>

\* the timeout callback: localStorage.setItem(KEY, JSON.stringify(state))
AutosaveTimeout ==
  /\ timer # <<>>
  /\ timer[1].elapsed
  /\ store' = <<JSONstringify(serializeState(timer[1].nodes, timer[1].edges))>>
  /\ timer' = Tail(timer)
  /\ last' = [op |-> "autosave", id |-> NullId,
              how |-> IF timer[1].cleared = 2 THEN "burst" ELSE "", text |-> ""]
  /\ preBranch' = <<>>
  /\ UNCHANGED <<nodes, edges, clock, connectingNodeId, connectingHandleId,
                 calls, file, focusedNodeId, chainOf>>

saveToLocalStorage ==
  /\ Idle
  /\ store' = <<JSONstringify(serializeState(nodes, edges))>>
  /\ last' = [op |-> "save", id |-> NullId, how |-> "", text |-> ""]
  /\ preBranch' = <<>>
  /\ UNCHANGED <<nodes, edges, clock, connectingNodeId, connectingHandleId,
                 calls, file, focusedNodeId, timer, chainOf>>

(***************************************************************************)
(* The same two writes when localStorage.setItem throws (the quota of the  *)
(* origin is used up, or storage is denied): the catch branch logs the     *)
(* error, and nothing is stored.                                           *)
(***************************************************************************)
\* a failure that escapes the callback and takes the canvas down with it
AutosaveTimeoutUncaught ==
  /\ timer # <<>>
  /\ timer[1].elapsed
  /\ timer' = Tail(timer)
  /\ nodes' = <<>>
  /\ edges' = <<>>
  /\ last' = [op |-> "autosave", id |-> NullId, how |-> "failed", text |-> ""]
  /\ preBranch' = <<>>
  /\ UNCHANGED <<clock, connectingNodeId, connectingHandleId, calls, file,
                 focusedNodeId, store, chainOf>>

AutosaveTimeoutThrows ==
  /\ timer # <<>>
  /\ timer[1].elapsed
  /\ timer' = Tail(timer)
  /\ last' = [op |-> "autosave", id |-> NullId, how |-> "failed", text |-> ""]
  /\ preBranch' = <<>>
  /\ UNCHANGED <<nodes, edges, clock, connectingNodeId, connectingHandleId,
                 calls, file, focusedNodeId, store, chainOf>>

saveToLocalStorageThrows ==
  /\ Idle
  /\ last' = [op |-> "save", id |-> NullId, how |-> "failed", text |-> ""]
  /\ preBranch' = <<>>
  /\ UNCHANGED <<nodes, edges, clock, connectingNodeId, connectingHandleId,
                 calls, file, focusedNodeId, store, timer, chainOf>>

(***************************************************************************)
(* Keyboard navigation of the page component.  Array.prototype.sort is     *)
(* stable: entries that compare equal keep their order.                    *)
(***************************************************************************)
RECURSIVE InsertAscending(_, _)
InsertAscending(n, sorted) ==
  IF sorted = <<>> THEN <<n>>
  ELSE IF n.timestamp < sorted[Len(sorted)].timestamp
  THEN Append(InsertAscending(n, SubSeq(sorted, 1, Len(sorted) - 1)),
              sorted[Len(sorted)])
  ELSE Append(sorted, n)

RECURSIVE InsertDescending(_, _)
InsertDescending(n, sorted) ==
  IF sorted = <<>> THEN <<n>>
  ELSE IF n.timestamp > sorted[Len(sorted)].timestamp
  THEN Append(InsertDescending(n, SubSeq(sorted, 1, Len(sorted) - 1)),
              sorted[Len(sorted)])
  ELSE Append(sorted, n)

\* [...ns].sort((a, b) => a.data.timestamp - b.data.timestamp)
RECURSIVE OldestFirst(_)
OldestFirst(ns) ==
  IF ns = <<>> THEN <<>>
  ELSE InsertAscending(ns[Len(ns)], OldestFirst(SubSeq(ns, 1, Len(ns) - 1)))

\* ns.sort((a, b) => b.data.timestamp - a.data.timestamp)
RECURSIVE NewestFirst(_)
NewestFirst(ns) ==
  IF ns = <<>> THEN <<>>
  ELSE InsertDescending(ns[Len(ns)], NewestFirst(SubSeq(ns, 1, Len(ns) - 1)))

\* the first child found, whatever its timestamp
FirstChild(children) == children[1].id

\* children.sort(newest first); children[0].id
NewestChild(children) == NewestFirst(children)[1].id

\* findIndex: the first index with the given id, 0 when there is none
IndexOfId(ns, id) == FindNode(ns, id)

\* edges.filter(pred).map(e => nodes.find(n => n.id === e.target))
\*      .filter(Boolean), for the edges leaving sourceId
ChildrenOf(ns, es, sourceId) ==
  LET out == SelectSeq(es, LAMBDA e : e.source = sourceId)
      found == SelectSeq(out, LAMBDA e : FindNode(ns, e.target) # 0)
  IN [k \in 1..Len(found) |-> ns[FindNode(ns, found[k].target)]]

\* the node the key press starts from: the focused node if it is in the
\* graph, else the node with id "root", else the first node
StartNode(ns, focused) ==
  IF focused # NullId /\ FindNode(ns, focused) # 0 THEN focused
  ELSE IF FindNode(ns, RootId) # 0 THEN RootId
  ELSE ns[1].id

\* a sibling step that wraps around at either end
AdjacentSiblingWrapping(siblings, currentIndex, key) ==
  LET nextIndex == IF key = "ArrowLeft"
                   THEN (IF currentIndex = 1 THEN Len(siblings)
                         ELSE currentIndex - 1)
                   ELSE (currentIndex % Len(siblings)) + 1
  IN siblings[nextIndex].id

\* the sibling before (ArrowLeft) or after (ArrowRight) position
\* currentIndex, NullId at either end
AdjacentSibling(siblings, currentIndex, key) ==
  LET nextIndex == IF key = "ArrowLeft" THEN currentIndex - 1
                   ELSE currentIndex + 1
  IN IF nextIndex >= 1 /\ nextIndex <= Len(siblings)
     THEN siblings[nextIndex].id ELSE NullId

\* an advance that stops at the newest node
TabTargetNoWrap(ns, currentNodeId) ==
  LET sortedNodes == OldestFirst(ns)
      currentIndex == IndexOfId(sortedNodes, currentNodeId)
  IN IF currentIndex < Len(sortedNodes)
     THEN sortedNodes[currentIndex + 1].id ELSE NullId

\* Tab: sortedNodes[(currentIndex + 1) % sortedNodes.length].id, indices
\* counted from 1 here
TabTarget(ns, currentNodeId) ==
  LET sortedNodes == OldestFirst(ns)
      currentIndex == IndexOfId(sortedNodes, currentNodeId)
  IN sortedNodes[(currentIndex % Len(sortedNodes)) + 1].id

\* the edge followed the wrong way: to the target of an edge that leaves
\* the node
ParentTargetDownwards(es, currentNodeId) ==
  LET hits == {i \in 1..Len(es) : es[i].source = currentNodeId} IN
  IF hits # {} THEN es[CHOOSE i \in hits : \A j \in hits : i <= j].target
  ELSE NullId

\* ArrowUp: the source of the first edge into the node, NullId without one
ParentTarget(es, currentNodeId) ==
  LET e == FindParentEdge(es, currentNodeId)
  IN IF e # 0 THEN es[e].source ELSE NullId

\* nextNodeId of handleKeyDown, NullId for null
NextNodeId(key, ns, es, currentNodeId) ==
  IF key = "Tab"
  THEN TabTarget(ns, currentNodeId)
  ELSE IF key = "ArrowDown"
  THEN LET children == ChildrenOf(ns, es, currentNodeId)
       IN IF Len(children) > 0 THEN NewestChild(children) ELSE NullId
  ELSE IF key = "ArrowUp"
  THEN ParentTarget(es, currentNodeId)
  ELSE LET e == FindParentEdge(es, currentNodeId) IN
       IF e = 0 THEN NullId
       ELSE LET siblings == OldestFirst(ChildrenOf(ns, es, es[e].source))
                currentIndex == IndexOfId(siblings, currentNodeId)
            IN IF currentIndex # 0
               THEN AdjacentSibling(siblings, currentIndex, key)
               ELSE NullId

\* focusNode(nodeId): the value of focusedNodeIdRef afterwards
focusNode(ns, focused, nodeId) ==
  IF FindNode(ns, nodeId) # 0 THEN nodeId ELSE focused

NavigationKeys == {"Tab", "ArrowUp", "ArrowDown", "ArrowLeft", "ArrowRight"}

\* handleKeyDown for a navigation key pressed outside an input field while
\* the search overlay is closed
handleKeyDown(key) ==
  /\ Idle
  /\ key \in NavigationKeys
  /\ IF Len(nodes) = 0
     THEN /\ focusedNodeId' = focusedNodeId
          /\ last' = [op |-> "key", id |-> NullId, how |-> key, text |-> ""]
     ELSE LET currentNodeId == StartNode(nodes, focusedNodeId)
              nextNodeId == NextNodeId(key, nodes, edges, currentNodeId)
          IN /\ focusedNodeId' =
                  IF nextNodeId # NullId
                  THEN focusNode(nodes, focusedNodeId, nextNodeId)
                  ELSE IF focusedNodeId = NullId
                  THEN focusNode(nodes, focusedNodeId, currentNodeId)
                  ELSE focusedNodeId
             /\ last' = [op |-> "key", id |-> currentNodeId, how |-> key,
                         text |-> ""]
  /\ preBranch' = <<>>
  /\ UNCHANGED <<nodes, edges, clock, connectingNodeId, connectingHandleId,
                 calls, file, store, timer, chainOf>>

\* the newest assistant node, as the shortcut that adds a prompt picks it
LatestTargetAssistant(ns) ==
  LET assistantNodes == SelectSeq(ns, LAMBDA n : n.role = "assistant")
  IN IF assistantNodes = <<>> THEN NullId
     ELSE NewestFirst(assistantNodes)[1].id

\* Cmd + ArrowDown: the first node of the nodes sorted newest first
LatestTarget(ns) == NewestFirst(ns)[1].id

\* Cmd + ArrowUp: the node with id "root", else the first node of the nodes
\* sorted oldest first
RootTarget(ns) ==
  IF FindNode(ns, RootId) # 0 THEN RootId ELSE OldestFirst(ns)[1].id

JumpKeys == {"ArrowUp", "ArrowDown"}

\* handleKeyDown for ArrowUp / ArrowDown pressed with Cmd or Ctrl outside an
\* input field while the search overlay is closed
handleKeyDownCmd(key) ==
  /\ Idle
  /\ key \in JumpKeys
  /\ focusedNodeId' =
       IF Len(nodes) = 0 THEN focusedNodeId
       ELSE focusNode(nodes, focusedNodeId,
                      IF key = "ArrowUp" THEN RootTarget(nodes)
                      ELSE LatestTarget(nodes))
  /\ last' = [op |-> "cmdKey", id |-> focusedNodeId, how |-> key, text |-> ""]
  /\ preBranch' = <<>>
  /\ UNCHANGED <<nodes, edges, clock, connectingNodeId, connectingHandleId,
                 calls, file, store, timer, chainOf>>

\* onNodeClick / onNodeDragStart: the node becomes the focused one
onNodeClick(id) ==
  /\ Idle
  /\ \E i \in 1..Len(nodes) : nodes[i].id = id
  /\ focusedNodeId' = id
  /\ last' = [op |-> "click", id |-> id, how |-> "", text |-> ""]
  /\ preBranch' = <<>>
  /\ UNCHANGED <<nodes, edges, clock, connectingNodeId, connectingHandleId,
                 calls, file, store, timer, chainOf>>

(***************************************************************************)
(* Node search (NodeSearchOverlay).  A string is taken here as the         *)
(* sequence of its characters; indices count from 0 as in the source.      *)
(***************************************************************************)
Lower(ch) == IF ch = "A" THEN "a" ELSE IF ch = "B" THEN "b" ELSE ch

\* replace(/\s+/g, " ") on a text whose only white space is the blank: of
\* every run of blanks the first stays.  The k-th character kept is found
\* from the blanks dropped before it.
CollapseSpaces(s) ==
  LET dropped == {i \in 2..Len(s) : s[i] = " " /\ s[i - 1] = " "}
      before(i) == Cardinality({d \in dropped : d <= i})
  IN [k \in 1..(Len(s) - Cardinality(dropped)) |->
        s[CHOOSE i \in k..(k + Cardinality(dropped)) :
            i \notin dropped /\ i - before(i) = k]]

TrimSpaces(s) ==
  LET inner == {i \in 1..Len(s) : s[i] # " "} IN
  IF inner = {} THEN <<>>
  ELSE SubSeq(s, CHOOSE i \in inner : \A j \in inner : i <= j,
                 CHOOSE i \in inner : \A j \in inner : i >= j)

\* s.toLowerCase().replace(/\s+/g, " ").trim()
normalizeText(s) ==
  TrimSpaces(CollapseSpaces([i \in 1..Len(s) |-> Lower(s[i])]))

\* text.indexOf(query, from), -1 when there is no occurrence
IndexOf(text, query, from) ==
  LET hits == {i \in from..(Len(text) - Len(query)) :
                 \A k \in 1..Len(query) : text[i + k] = query[k]}
  IN IF hits = {} THEN -1 ELSE CHOOSE i \in hits : \A j \in hits : i <= j

RoleChars(role) ==
  IF role = "user" THEN <<"u", "s", "e", "r">>
  ELSE <<"a", "s", "s", "i", "s", "t", "a", "n", "t">>

\* [label, role, content].filter(Boolean).join(" ").trim(); no node of the
\* program has a label
getNodeSearchText(node) ==
  TrimSpaces(IF node.content = <<>> THEN RoleChars(node.role)
             ELSE RoleChars(node.role) \o <<" ">> \o node.content)

Min(a, b) == IF a < b THEN a ELSE b

Max(a, b) == IF a > b THEN a ELSE b

\* the loop over the characters of the query: gaps counted so far, -1 once
\* a character is not found
RECURSIVE SubsequenceGaps(_, _, _, _, _)
SubsequenceGaps(query, text, qi, ti, gaps) ==
  IF qi > Len(query) THEN gaps
  ELSE LET foundAt == IndexOf(text, <<query[qi]>>, ti) IN
       IF foundAt = -1 THEN -1
       ELSE SubsequenceGaps(query, text, qi + 1, foundAt + 1,
                            gaps + Max(0, foundAt - ti))

\* a substring score that weighs the match index ten times as much
SubstringScoreSteep(idx, textLength, queryLength) ==
  idx * 100 + Min(2000, Max(0, textLength - queryLength))

SubstringScore(idx, textLength, queryLength) ==
  idx * 10 + Min(2000, Max(0, textLength - queryLength))

NoScore == [score |-> -1, matchType |-> "null"]

scoreMatch(queryRaw, textRaw) ==
  LET query == normalizeText(queryRaw)
      text == normalizeText(textRaw)
  IN IF query = <<>> \/ text = <<>> THEN NoScore
     ELSE LET idx == IndexOf(text, query, 0) IN
          IF idx >= 0
          THEN [score |-> SubstringScore(idx, Len(text), Len(query)),
                matchType |-> "substring"]
          ELSE LET gaps == SubsequenceGaps(query, text, 1, 0, 0) IN
               IF gaps = -1 THEN NoScore
               ELSE [score |-> 2000 + gaps * 5
                                 + Max(0, Len(text) - Len(query)),
                     matchType |-> "subsequence"]

\* ranked.sort((a, b) => a.score - b.score): a stable sort by score
RECURSIVE InsertByScore(_, _)
InsertByScore(r, sorted) ==
  IF sorted = <<>> THEN <<r>>
  ELSE IF r.score < sorted[1].score THEN <<r>> \o sorted
  ELSE <<sorted[1]>> \o InsertByScore(r, Tail(sorted))

RECURSIVE Ranked(_, _, _)
Ranked(ns, q, i) ==
  IF i = 0 THEN <<>>
  ELSE LET scored == scoreMatch(q, getNodeSearchText(ns[i]))
           before == Ranked(ns, q, i - 1)
       IN IF scored = NoScore THEN before
          ELSE InsertByScore([node |-> ns[i].id, score |-> scored.score,
                              matchType |-> scored.matchType], before)

\* the results memo of the overlay for the nodes and the query typed
results(ns, query) ==
  LET q == normalizeText(query) IN
  IF q = <<>> THEN <<>>
  ELSE LET ranked == Ranked(ns, q, Len(ns)) IN
       SubSeq(ranked, 1, Min(12, Len(ranked)))

\* onChange of the search field: setQuery(e.target.value)
setQuery(query) ==
  /\ last' = [op |-> "search", id |-> NullId, how |-> "", text |-> query]
  /\ preBranch' = <<>>
  /\ UNCHANGED <<nodes, edges, clock, connectingNodeId, connectingHandleId,
                 calls, file, focusedNodeId, store, timer, chainOf>>

(***************************************************************************)
(* Specifications.  In all of them two handlers that read the clock are at *)
(* least one tick apart, and while a connect drag is in progress the only  *)
(* other event is the completion of a backend call.                        *)
(***************************************************************************)
NodeIds == {nodes[i].id : i \in 1..Len(nodes)}

ConnectStepUpTo(limit) ==
  \/ \E id \in NodeIds : onConnectStart(id)
  \/ \E position \in DropPositions, d \in ClockSteps :
       clock + d <= limit /\ onConnectEnd(TRUE, position, clock + d)
  \/ \E position \in DropPositions : onConnectEnd(FALSE, position, clock)

SubmitStepUpTo(limit) ==
  \E i \in 1..Len(nodes), text \in Texts, d \in ClockSteps,
     measured \in MeasuredHeights :
    clock + d <= limit /\ Submit(i, text, clock + d, measured)

ConnectStep == ConnectStepUpTo(MaxClock)

SubmitStep == SubmitStepUpTo(MaxClock)

CancelStep == \E i \in 1..Len(nodes) : Cancel(i)

DeliverStep ==
  \E c \in calls, network \in BOOLEAN, completion \in Completions :
    Deliver(c, network, completion)

DeliverReplyStep ==
  \E c \in calls : Deliver(c, TRUE, [throws |-> FALSE, content |-> "hello"])

DeleteStep == \E id \in NodeIds : DeleteNode(id)

ResetStep ==
  \E d \in ClockSteps : clock + d <= MaxClock /\ startNewConversation(clock + d)

\* the branch controller and the graph store
Next ==
  \/ ConnectStep
  \/ SubmitStep
  \/ CancelStep
  \/ DeliverStep
  \/ DeleteStep
  \/ ResetStep

Spec == Init /\ [][Next]_vars

\* the branch controller with export to and import from a file
NextCodec ==
  \/ ConnectStep
  \/ SubmitStep
  \/ CancelStep
  \/ DeliverReplyStep
  \/ exportState
  \/ handleFileChange

SpecCodec == Init /\ [][NextCodec]_vars

\* the branch controller alone, one clock reading further: two submits, so
\* two backend calls in flight at once
NextBranch ==
  \/ ConnectStepUpTo(MaxClock + 1)
  \/ SubmitStepUpTo(MaxClock + 1)
  \/ CancelStep
  \/ DeliverStep

SpecBranch == Init /\ [][NextBranch]_vars

\* branches grown one clock reading further, every call answered by the
\* same successful reply: chains of submits beside sibling branches
NextChain ==
  \/ ConnectStepUpTo(MaxClock + 1)
  \/ SubmitStepUpTo(MaxClock + 1)
  \/ DeliverReplyStep

SpecChain == Init /\ [][NextChain]_vars

\* the graph store with export and import, branches one clock reading
\* short: a call may complete after its node left the snapshot by delete,
\* by a new conversation or by the import of another document
NextAbsent ==
  \/ ConnectStepUpTo(MaxClock - 1)
  \/ SubmitStepUpTo(MaxClock - 1)
  \/ DeliverStep
  \/ DeleteStep
  \/ ResetStep
  \/ exportState
  \/ handleFileChange

SpecAbsent == Init /\ [][NextAbsent]_vars

\* export and import of intact and of damaged files, branches one clock
\* reading short
ImportDamagedStep == \E kind \in Damages : handleFileChangeDamaged(kind)

NextImport ==
  \/ ConnectStepUpTo(MaxClock - 1)
  \/ SubmitStepUpTo(MaxClock - 1)
  \/ CancelStep
  \/ DeliverReplyStep
  \/ exportState
  \/ handleFileChange
  \/ ImportDamagedStep

SpecImport == Init /\ [][NextImport]_vars

\* the branch controller when two handlers may read the same clock value
\* (Date.now() has millisecond resolution); the graph grows to no more nodes
\* than MaxClock
TickSteps == {0, 1}

NextTick ==
  \/ \E id \in NodeIds : onConnectStart(id)
  \/ \E position \in DropPositions, d \in TickSteps :
       /\ clock + d <= MaxClock
       /\ Len(nodes) < MaxClock
       /\ onConnectEnd(TRUE, position, clock + d)
  \/ \E position \in DropPositions : onConnectEnd(FALSE, position, clock)
  \/ \E i \in 1..Len(nodes), text \in Texts, d \in TickSteps,
        measured \in MeasuredHeights :
       /\ clock + d <= MaxClock
       /\ Len(nodes) < MaxClock
       /\ Submit(i, text, clock + d, measured)
  \/ CancelStep
  \/ DeliverReplyStep

SpecTick == Init /\ [][NextTick]_vars

\* the graph store with keyboard navigation
KeyStep == \E key \in NavigationKeys : handleKeyDown(key)

ClickStep == \E id \in NodeIds : onNodeClick(id)

NextNav ==
  \/ ConnectStep
  \/ SubmitStep
  \/ CancelStep
  \/ DeleteStep
  \/ KeyStep
  \/ ClickStep

SpecNav == Init /\ [][NextNav]_vars

\* the graph store with its durable copy
NextSave ==
  \/ ConnectStep
  \/ SubmitStep
  \/ CancelStep
  \/ DeliverReplyStep
  \/ ResetStep
  \/ TimeoutElapses
  \/ AutosaveTimeout
  \/ saveToLocalStorage

SpecSave == Init /\ [][NextSave]_vars

\* the branch controller with one submit in flight: after the submit the
\* user navigates, exports once, starts and cancels other branches; every
\* backend call returns or fails in the end.  The prompt text plays no part
\* here and is always the same.
SubmitOnceStep ==
  \E i \in 1..Len(nodes), d \in ClockSteps, measured \in MeasuredHeights :
    clock + d <= MaxClock - 1 /\ Submit(i, "hi", clock + d, measured)

NextLive ==
  \/ ConnectStep
  \/ SubmitOnceStep
  \/ calls # {} /\ CancelStep
  \/ DeliverStep
  \/ calls # {} /\ KeyStep
  \/ calls # {} /\ file = <<>> /\ exportState

SpecLive == Init /\ [][NextLive]_vars /\ WF_vars(DeliverStep)

\* the branch controller while backend calls are in flight: one prompt
\* text, navigation keys and one export during a call
SubmitBesideStep ==
  \E i \in 1..Len(nodes), d \in ClockSteps, measured \in MeasuredHeights :
    clock + d <= MaxClock /\ Submit(i, "hi", clock + d, measured)

NextBusy ==
  \/ ConnectStep
  \/ SubmitBesideStep
  \/ CancelStep
  \/ DeliverReplyStep
  \/ calls # {} /\ KeyStep
  \/ calls # {} /\ file = <<>> /\ exportState

SpecBusy == Init /\ [][NextBusy]_vars

\* the graph store with the jumps to the root and to the newest node
CmdKeyStep == \E key \in JumpKeys : handleKeyDownCmd(key)

NextJump ==
  \/ ConnectStep
  \/ SubmitStep
  \/ CancelStep
  \/ DeleteStep
  \/ CmdKeyStep
  \/ ClickStep

SpecJump == Init /\ [][NextJump]_vars

\* the graph store with its durable copy across process starts, branches
\* one clock reading short
MountStep == \E d \in ClockSteps : clock + d <= MaxClock /\ mount(clock + d)

StoreDamagedStep == \E kind \in Damages : storeDamaged(kind)

NextBoot ==
  \/ ConnectStepUpTo(MaxClock - 1)
  \/ SubmitStepUpTo(MaxClock - 1)
  \/ DeliverReplyStep
  \/ TimeoutElapses
  \/ AutosaveTimeout
  \/ StoreDamagedStep
  \/ MountStep

SpecBoot == Init /\ [][NextBoot]_vars

\* the branch controller with the keys of the pending prompt, export and
\* import: cancels through live and through restored closures
EscapeStep ==
  \E i \in 1..Len(nodes), draft \in Drafts : InputNodeEscape(i, draft)

NextDraft ==
  \/ ConnectStep
  \/ SubmitStep
  \/ EscapeStep
  \/ DeliverReplyStep
  \/ exportState
  \/ handleFileChange

SpecDraft == Init /\ [][NextDraft]_vars

\* the branch controller with node drags and new conversations; one prompt
\* text, branches and submits one clock reading short
DragStep == \E id \in NodeIds, position \in DragPositions : onNodeDrag(id, position)

NextDrag ==
  \/ ConnectStepUpTo(MaxClock - 1)
  \/ SubmitOnceStep
  \/ CancelStep
  \/ DeliverReplyStep
  \/ DragStep
  \/ ResetStep

SpecDrag == Init /\ [][NextDrag]_vars

\* the graph store under every operation that keeps or removes nodes and
\* edges together, with the autosave of the graph; branches one clock
\* reading short, one prompt text, one drag position
DragAsideStep == \E id \in NodeIds : onNodeDrag(id, [x |-> 400, y |-> 0])

NextHold ==
  \/ ConnectStepUpTo(MaxClock - 1)
  \/ SubmitOnceStep
  \/ CancelStep
  \/ DeliverReplyStep
  \/ DragAsideStep
  \/ ResetStep
  \/ TimeoutElapses
  \/ AutosaveTimeout

SpecHold == Init /\ [][NextHold]_vars

\* the branch controller with connections drawn between existing nodes; one
\* prompt text, branches and submits one clock reading short
JoinStep == \E target \in NodeIds : onConnect(target)

NextJoin ==
  \/ ConnectStepUpTo(MaxClock - 1)
  \/ JoinStep
  \/ SubmitOnceStep
  \/ CancelStep
  \/ DeliverReplyStep

SpecJoin == Init /\ [][NextJoin]_vars

\* the branch controller with the autosave when a write to localStorage may
\* fail; one prompt text, branches and submits one clock reading short
NextQuota ==
  \/ ConnectStepUpTo(MaxClock - 1)
  \/ SubmitOnceStep
  \/ CancelStep
  \/ DeliverReplyStep
  \/ TimeoutElapses
  \/ AutosaveTimeout
  \/ AutosaveTimeoutThrows
  \/ saveToLocalStorage
  \/ saveToLocalStorageThrows

SpecQuota == Init /\ [][NextQuota]_vars

\* the graph store with its durable copy across process starts taken in
\* their two steps; one prompt text, branches and submits one clock reading
\* short
FirstRenderStep ==
  \E d \in ClockSteps : clock + d <= MaxClock /\ firstRender(clock + d)

NextStart ==
  \/ FirstRenderStep
  \/ loadOnMount
  \/ isInitialized /\ ConnectStepUpTo(MaxClock - 1)
  \/ isInitialized /\ SubmitOnceStep
  \/ isInitialized /\ DeliverReplyStep
  \/ isInitialized /\ TimeoutElapses
  \/ isInitialized /\ AutosaveTimeout
  \/ isInitialized /\ StoreDamagedStep

SpecStart == Init /\ [][NextStart]_vars

\* the graph store and its autosave when time passes and every timeout
\* callback runs in the end; one prompt text, branches and submits one clock
\* reading short
NextSettle ==
  \/ ConnectStepUpTo(MaxClock - 1)
  \/ SubmitOnceStep
  \/ CancelStep
  \/ DeliverStep
  \/ ResetStep
  \/ TimeoutElapses
  \/ AutosaveTimeout

SpecSettle ==
  /\ Init
  /\ [][NextSettle]_vars
  /\ WF_vars(TimeoutElapses)
  /\ WF_vars(AutosaveTimeout)

\* node search over graphs of two message nodes, a user turn and its reply,
\* whose contents are a run of filler characters followed by a short core;
\* the runs reach past the length up to which the match index cannot outweigh
\* the two kinds of match
Pads == {0, 3, 170, 200}

Cores == {<<>>, <<"b">>, <<"a", "b">>, <<"a", " ", "b">>, <<"a", "x", "b">>}

Pad(n) == [i \in 1..n |-> "x"]

SearchContents == {Pad(p) \o core : p \in Pads, core \in Cores}

Queries == {<<"a", "b">>, <<"A", "B", " ">>, <<"b", " ", " ", "a">>}

SearchNode(n, role, content) ==
  [ id |-> [pre |-> "s", n |-> n], type |-> "message",
    position |-> [x |-> 0, y |-> 0], role |-> role, content |-> content,
    timestamp |-> n, isInput |-> Undefined, label |-> Undefined,
    origin |-> "center-top", onSend |-> NoClosure, onCancel |-> NoClosure ]

InitSearch ==
  /\ \E c1 \in SearchContents, c2 \in SearchContents :
       nodes = <<SearchNode(1, "user", c1), SearchNode(2, "assistant", c2)>>
  /\ edges = <<>>
  /\ clock = 0
  /\ connectingNodeId = NullId
  /\ connectingHandleId = Undefined
  /\ calls = {}
  /\ file = <<>>
  /\ focusedNodeId = NullId
  /\ store = <<>>
  /\ timer = <<>>
  /\ chainOf = (RootId :> <<RootId>>)
  /\ preBranch = <<>>
  /\ last = NoOp

SetQueryStep == \E query \in Queries : setQuery(query)

NextSearch == SetQueryStep

SpecSearch == InitSearch /\ [][NextSearch]_vars

(***************************************************************************)
(* Properties.                                                             *)
(***************************************************************************)
InDegree(id) == Cardinality({i \in 1..Len(edges) : edges[i].target = id})

\* C1: after any sequence of startBranch, submit, cancel and node removal
\* from the single-root graph, every node of the snapshot is the target of
\* at most one edge.
C1_InDegreeAtMostOne == \A id \in NodeIds : InDegree(id) <= 1

\* a branch was started and submitted, its reply node deleted, and a second
\* branch started and cancelled
C1_Witness ==
  /\ last.op = "cancel"
  /\ Len(edges) >= 1
  /\ \E id \in DOMAIN chainOf :
        /\ id.pre = "ai"
        /\ id \notin NodeIds
        /\ [pre |-> "input", n |-> id.n - 1] \in NodeIds
  /\ \E i \in 1..Len(nodes) : nodes[i].role = "user" /\ nodes[i].type = "message"

NodeById(id) == nodes[FindNode(nodes, id)]

\* every node of the branch on which id was created is still in the snapshot
ChainPresent(id) == \A k \in 1..Len(chainOf[id]) : chainOf[id][k] \in NodeIds

\* the turns of the branch of id, in creation order
ChainTurns(id) ==
  LET msgs == SelectSeq(chainOf[id], LAMBDA k : NodeById(k).type = "message")
  IN [j \in 1..Len(msgs) |->
        [role |-> NodeById(msgs[j]).role, content |-> NodeById(msgs[j]).content]]

\* id is the reply of the last of N startBranch + submit steps, each started
\* from the reply of the step before (the first from the root)
IsSubmitChain(id) ==
  LET ch == chainOf[id] IN
  /\ Len(ch) % 2 = 1
  /\ ch[1] = RootId
  /\ \A k \in 2..Len(ch) :
        /\ ch[k].pre = (IF k % 2 = 0 THEN "input" ELSE "ai")
        /\ NodeById(ch[k]).type = "message"

\* C2: resolve on the last node of a chain of N sequential submits returns
\* the turns of exactly that chain, each once, in creation order, user and
\* assistant alternating, whatever sibling branches exist.
C2_ChainContext ==
  LET ids == NodeIds IN
  \A id \in ids :
    LET ch == chainOf[id] IN
    (\A k \in 1..Len(ch) : ch[k] \in ids) =>
      LET h == getContextForNode(id, nodes, edges)
          on == [k \in 1..Len(ch) |-> NodeById(ch[k])]
          msgs == SelectSeq(on, LAMBDA n : n.type = "message")
      IN /\ h = [j \in 1..Len(msgs) |->
                   [role |-> msgs[j].role, content |-> msgs[j].content]]
         /\ IsSubmitChain(id) =>
              /\ Len(h) = Len(ch)
              /\ \A k \in 1..Len(h) :
                    /\ h[k].role = (IF k % 2 = 1 THEN "assistant" ELSE "user")
                    /\ h[k].content = on[k].content
              /\ \A k \in 1..(Len(ch) - 1) :
                    on[k].timestamp < on[k + 1].timestamp

\* two branches of the root were submitted with different texts; the reply
\* of the first was delivered, the second is still answered "Thinking..."
C2_Witness ==
  \E id \in NodeIds :
    /\ ChainPresent(id)
    /\ IsSubmitChain(id)
    /\ Len(chainOf[id]) = 3
    /\ NodeById(id).content = "hello"
    /\ \E other \in NodeIds :
          /\ other # id
          /\ IsSubmitChain(other)
          /\ Len(chainOf[other]) = 3
          /\ NodeById(other).content = Thinking
          /\ NodeById(chainOf[other][2]).content
                # NodeById(chainOf[id][2]).content

\* the source of the first edge into id, NullId when there is none
ParentOf(id) ==
  LET e == FindParentEdge(edges, id) IN
  IF e # 0 THEN edges[e].source ELSE NullId

\* the backend call issued by the submit that ran last
LastCall == CHOOSE c \in calls : c.assistantId = [pre |-> "ai", n |-> clock]

\* C3: the message list of a submit is resolve(parent) on the snapshot
\* committed at the moment of the submit, followed by the new user turn, for
\* every interleaving of mutations since the pending prompt was created.
C3_RequestFromLatestSnapshot ==
  last.op = "submit" =>
    LastCall.messages =
      Append(getContextForNode(ParentOf(last.id), nodes, edges),
             [role |-> "user", content |-> last.text])

\* the content the completion of a call writes, by the outcome of that call
OutcomeContent(l) ==
  IF l.how = "transport" THEN CouldNotFetch
  ELSE IF l.how = "reply" /\ l.text # "" THEN l.text
  ELSE NoResponse

\* C4: with two calls in flight, whichever completes first writes the outcome
\* of its own call to its own assistant node and leaves every other node,
\* the other call's assistant node included, unchanged.
C4_IsolatedCompletion ==
  [][ (last'.op = "deliver" /\ Cardinality(calls) >= 2) =>
        /\ Len(nodes') = Len(nodes)
        /\ \A i \in 1..Len(nodes) :
              nodes'[i] = IF nodes[i].id = last'.id
                          THEN [nodes[i] EXCEPT !.content = OutcomeContent(last')]
                          ELSE nodes[i]
        /\ \E c \in calls : c.assistantId = last'.id /\ calls' = calls \ {c}
    ]_vars

\* the call submitted second completed first, the first is still in flight
C4_Witness ==
  /\ last.op = "deliver"
  /\ last.id \in NodeIds
  /\ \E c \in calls :
        /\ c.assistantId.n < last.id.n
        /\ c.assistantId \in NodeIds
        /\ NodeById(c.assistantId).content = Thinking
        /\ NodeById(last.id).content # Thinking

\* C5: the content of a message node changes only once, when the completion
\* of its own call replaces the placeholder of an assistant node; a user
\* message and a replaced assistant message never change.
C5_ContentWrittenOnce ==
  [][ \A i \in 1..Len(nodes), j \in 1..Len(nodes') :
        ( /\ nodes[i].id = nodes'[j].id
          /\ nodes[i].type = "message"
          /\ nodes'[j].content # nodes[i].content )
        => /\ nodes[i].role = "assistant"
           /\ nodes[i].content = Thinking
           /\ nodes'[j].content # Thinking
           /\ last'.op = "deliver"
           /\ last'.id = nodes[i].id
    ]_vars

\* a reply was written, and later operations ran on the same graph
C5_Witness ==
  /\ last.op = "startBranch"
  /\ \E i \in 1..Len(nodes) :
        /\ nodes[i].id.pre = "ai"
        /\ nodes[i].content \notin {Thinking}
        /\ nodes[i].id.n < last.id.n
  /\ \E i \in 1..Len(nodes) : nodes[i].role = "user" /\ nodes[i].type = "message"

\* the fields of a snapshot that a round trip is to preserve
SameGraph(ns1, es1, ns2, es2) ==
  /\ Len(ns1) = Len(ns2)
  /\ Len(es1) = Len(es2)
  /\ \A i \in 1..Len(ns1) :
        /\ ns1[i].id = ns2[i].id
        /\ ns1[i].type = ns2[i].type
        /\ ns1[i].position = ns2[i].position
        /\ ns1[i].role = ns2[i].role
        /\ ns1[i].content = ns2[i].content
        /\ ns1[i].timestamp = ns2[i].timestamp
  /\ \A i \in 1..Len(es1) :
        /\ es1[i].id = es2[i].id
        /\ es1[i].source = es2[i].source
        /\ es1[i].target = es2[i].target

\* C6: importState of the JSON text of serializeState yields the nodes and
\* edges of the serialized snapshot: same ids, kinds, positions, roles,
\* content, timestamps, edge ends, in the same order.
C6_RoundTrip ==
  LET r == importState(JSONstringify(serializeState(nodes, edges)),
                       nodes, edges)
  IN /\ r.ok
     /\ SameGraph(r.nodes, r.edges, nodes, edges)

\* a document with a pending prompt, a user turn and a reply was imported
C6_Witness ==
  /\ last.op = "import"
  /\ last.how = "ok"
  /\ \E i \in 1..Len(nodes) :
        nodes[i].type = "inputNode" /\ nodes[i].onSend.kind = "restored"
  /\ \E i \in 1..Len(nodes) : nodes[i].role = "user" /\ nodes[i].type = "message"
  /\ \E i \in 1..Len(nodes) : nodes[i].content = "hello"
  /\ Len(edges) >= 3

\* C7: cancelling a pending prompt, fresh or restored, removes that node and
\* exactly the edges with that node at either end, and nothing else.
C7_CancelRemovesIncident ==
  [][ last'.op = "cancel" =>
        /\ last'.id \in NodeIds
        /\ nodes' = SelectSeq(nodes, LAMBDA n : n.id # last'.id)
        /\ edges' = SelectSeq(edges, LAMBDA e : e.source # last'.id
                                                /\ e.target # last'.id)
        /\ Len(nodes') = Len(nodes) - 1
        /\ Len(edges') = Len(edges) - 1
    ]_vars

\* a restored pending prompt was cancelled in a graph that keeps other edges
C7_Witness ==
  /\ last.op = "cancel"
  /\ last.how = "restored"
  /\ Len(edges) >= 2
  /\ Len(nodes) >= 3

\* C8: startBranch immediately followed by cancel of the new pending prompt
\* leaves the nodes and the edges as they were before startBranch.
C8_BranchThenCancel ==
  (last.op = "cancel" /\ preBranch # <<>>) =>
     /\ nodes = preBranch[1].nodes
     /\ edges = preBranch[1].edges

\* the cancelled branch had a sibling branch that was submitted
C8_Witness ==
  /\ last.op = "cancel"
  /\ preBranch # <<>>
  /\ \E i \in 1..Len(edges) :
        /\ edges[i].source = preBranch[1].parentId
        /\ NodeById(edges[i].target).type = "message"
  /\ \E i \in 1..Len(nodes) : nodes[i].id.pre = "ai"

C10_ContentIsReply ==
  (last.op = "deliver" /\ last.how = "reply" /\ last.id \in NodeIds)
  => NodeById(last.id).content = last.text

\* C10: a non-empty reply r becomes the content of the assistant node of the
\* call and no other field of the node changes; an empty reply yields
\* "Error: No response".
C10_ReplyWritten ==
  [][ (last'.op = "deliver" /\ last'.how = "reply") =>
        /\ Len(nodes') = Len(nodes)
        /\ \A i \in 1..Len(nodes) :
              nodes[i].id = last'.id =>
                nodes'[i] = [nodes[i] EXCEPT
                               !.content = IF last'.text # "" THEN last'.text
                                           ELSE NoResponse]
    ]_vars

\* the reply "hello" was delivered to its assistant node
C10_Witness ==
  /\ last.op = "deliver"
  /\ last.how = "reply"
  /\ last.text = "hello"
  /\ last.id \in NodeIds
  /\ NodeById(last.id).content = "hello"

\* C11: a completion whose assistant node is no longer in the snapshot leaves
\* nodes and edges unchanged, does not re-create the node, and ends normally
\* (the call is retired).
C11_AbsentNodeNoOp ==
  [][ (last'.op = "deliver" /\ last'.id \notin NodeIds) =>
        /\ nodes' = nodes
        /\ edges' = edges
        /\ \A i \in 1..Len(nodes') : nodes'[i].id # last'.id
        /\ \E c \in calls : c.assistantId = last'.id /\ calls' = calls \ {c}
    ]_vars

\* a call completed after a document exported before its submit was imported:
\* its prompt is pending again and its assistant node is gone
C11_Witness ==
  /\ last.op = "deliver"
  /\ last.id \notin NodeIds
  /\ \E i \in 1..Len(nodes) :
        /\ nodes[i].id = [pre |-> "input", n |-> last.id.n - 1]
        /\ nodes[i].type = "inputNode"

\* C12: importState on text that is not JSON, or on a document whose nodes or
\* edges field is absent or is no array, or that has a node entry without
\* its data record, returns false and commits nothing: nodes and edges stay
\* as they were and setViewport is not called.
C12_MalformedImportRejected ==
  [][ (last'.op = "import" /\ last'.text \in Damages) =>
        LET r == importState(Damaged(last'.text, file[1]), nodes, edges) IN
        /\ ~r.ok
        /\ r.nodes = nodes
        /\ r.edges = edges
        /\ r.viewport = <<>>
        /\ last'.how = "failed"
        /\ nodes' = nodes
        /\ edges' = edges
    ]_vars

\* a file whose nodes would restore but whose edges field is no array was
\* picked while the graph had grown past the exported one
C12_Witness ==
  /\ last.op = "import"
  /\ last.text = "edgesNotArray"
  /\ last.how = "failed"
  /\ file # <<>>
  /\ Len(file[1].nodes) >= 2
  /\ Len(nodes) > Len(file[1].nodes)
  /\ importState(file[1], nodes, edges).viewport # <<>>

\* C13: submitting a restored pending prompt P with text t converts P in
\* place, adds one placeholder assistant node A with the edge P -> A, and
\* sends resolve(p) on the restored snapshot followed by (user, t), p being
\* the source of the edge into P.
C13_RestoredSubmit ==
  (last.op = "submit" /\ last.id \in NodeIds
     /\ NodeById(last.id).onSend.kind = "restored")
  => /\ NodeById(last.id).type = "message"
     /\ NodeById(last.id).role = "user"
     /\ NodeById(last.id).content = last.text
     /\ \E i \in 1..Len(nodes) :
           /\ nodes[i].id = [pre |-> "ai", n |-> clock]
           /\ nodes[i].content = Thinking
     /\ \E i \in 1..Len(edges) :
           /\ edges[i].source = last.id
           /\ edges[i].target = [pre |-> "ai", n |-> clock]
     /\ LastCall.messages =
          Append(getContextForNode(ParentOf(last.id), nodes, edges),
                 [role |-> "user", content |-> last.text])

\* C14: in every reachable snapshot the node ids are pairwise distinct, also
\* when several startBranch or submit operations read the same clock value.
C14_DistinctIds ==
  \A i, j \in 1..Len(nodes) : i # j => nodes[i].id # nodes[j].id

\* C15: every pending prompt (type inputNode) has no outgoing edge and
\* exactly one incoming edge, whose source is a node of the snapshot.
C15_PendingPromptEdges ==
  \A i \in 1..Len(nodes) :
    nodes[i].type = "inputNode" =>
      /\ \A k \in 1..Len(edges) : edges[k].source # nodes[i].id
      /\ InDegree(nodes[i].id) = 1
      /\ ParentOf(nodes[i].id) \in NodeIds

\* the node with id "root", else the node with the smallest timestamp
RootOrEarliest ==
  IF RootId \in NodeIds THEN RootId ELSE OldestFirst(nodes)[1].id

\* C16: a navigation key pressed while no node is focused focuses the root
\* node (id "root", else smallest timestamp) and applies no movement.
C16_FocusDefaultsToRoot ==
  [][ (last'.op = "key" /\ focusedNodeId = NullId /\ Len(nodes) > 0) =>
        focusedNodeId' = RootOrEarliest
    ]_vars

\* ids of the nodes of the snapshot that an edge from id leads to
ChildIds(id) ==
  {edges[k].target : k \in {j \in 1..Len(edges) : edges[j].source = id}}
    \cap NodeIds

TimestampOf(id) == NodeById(id).timestamp

\* C17: ArrowDown from a focused node with children moves focus to the child
\* with the greatest timestamp; from a node without outgoing edge focus is
\* unchanged.
C17_ToNewestChild ==
  [][ (last'.op = "key" /\ last'.how = "ArrowDown"
         /\ focusedNodeId \in NodeIds) =>
        LET children == ChildIds(focusedNodeId) IN
        IF children = {} THEN focusedNodeId' = focusedNodeId
        ELSE /\ focusedNodeId' \in children
             /\ \A c \in children :
                   TimestampOf(c) <= TimestampOf(focusedNodeId')
    ]_vars

\* ArrowDown moved focus from a node with two children to the newer one
C17_Witness ==
  /\ last.op = "key"
  /\ last.how = "ArrowDown"
  /\ focusedNodeId \in NodeIds
  /\ ParentOf(focusedNodeId) = last.id
  /\ \E c \in ChildIds(last.id) :
        TimestampOf(c) < TimestampOf(focusedNodeId)

\* C18: ArrowLeft / ArrowRight move focus to the adjacent entry among the
\* children of the focused node's parent in ascending timestamp order; at
\* the first (ArrowLeft) or last (ArrowRight) sibling, and on a node without
\* parent, focus is unchanged.
C18_AdjacentSibling ==
  [][ (last'.op = "key" /\ last'.how \in {"ArrowLeft", "ArrowRight"}
         /\ focusedNodeId \in NodeIds) =>
        LET cur == focusedNodeId
            p == ParentOf(cur)
            beyond == IF p = NullId THEN {}
                      ELSE {s \in ChildIds(p) :
                              IF last'.how = "ArrowLeft"
                              THEN TimestampOf(s) < TimestampOf(cur)
                              ELSE TimestampOf(s) > TimestampOf(cur)}
        IN IF beyond = {} THEN focusedNodeId' = cur
           ELSE /\ focusedNodeId' \in beyond
                /\ \A s \in beyond :
                      IF last'.how = "ArrowLeft"
                      THEN TimestampOf(s) <= TimestampOf(focusedNodeId')
                      ELSE TimestampOf(s) >= TimestampOf(focusedNodeId')
    ]_vars

\* ArrowLeft moved focus from the newest of three siblings to the middle one
C18_Witness ==
  /\ last.op = "key"
  /\ last.how = "ArrowLeft"
  /\ focusedNodeId \in NodeIds
  /\ last.id \in NodeIds
  /\ ParentOf(focusedNodeId) # NullId
  /\ ParentOf(last.id) = ParentOf(focusedNodeId)
  /\ TimestampOf(focusedNodeId) < TimestampOf(last.id)
  /\ \E s \in ChildIds(ParentOf(focusedNodeId)) :
        TimestampOf(s) < TimestampOf(focusedNodeId)

\* the document of the snapshot committed in the current state
CurrentDocument == JSONstringify(serializeState(nodes, edges))

\* C19: every document written to the durable store, by the autosave timeout
\* or by saveToLocalStorage, is the serialization of the nodes and edges
\* committed together when it is written; the store changes in no other way
\* than by such a write or by the removal at a new conversation.
C19_PersistedIsCommitted ==
  [][ /\ last'.op \in {"autosave", "save"} => store' = <<CurrentDocument>>
      /\ store' # store => last'.op \in {"autosave", "save", "startNew"}
    ]_vars

\* the autosave timeout wrote a graph with a submitted branch and its reply
C19_Witness ==
  /\ last.op = "autosave"
  /\ store # <<>>
  /\ Len(store[1].edges) >= 2
  /\ \E i \in 1..Len(store[1].nodes) : store[1].nodes[i].data.content = "hello"
  /\ \E i \in 1..Len(store[1].nodes) : store[1].nodes[i].data.role = "user"

\* C20: every change of nodes or edges clears the pending autosave timeout
\* and starts a new one with the full delay, so at most one timeout is
\* pending; the timeout runs only after its delay has passed without a
\* further change, stores the snapshot of the last change and leaves no
\* timeout behind.
C20_Debounced ==
  [][ /\ Len(timer') <= 1
      /\ (nodes' # nodes \/ edges' # edges) =>
            /\ Len(timer') = 1
            /\ timer'[1].nodes = nodes'
            /\ timer'[1].edges = edges'
            /\ ~timer'[1].elapsed
      /\ last'.op = "autosave" =>
            /\ timer[1].elapsed
            /\ timer[1].nodes = nodes
            /\ timer[1].edges = edges
            /\ store' = <<CurrentDocument>>
            /\ timer' = <<>>
    ]_vars

\* the first write after three or more changes in a row, each made before
\* the delay of the timeout before had passed
C20_Witness ==
  /\ last.op = "autosave"
  /\ last.how = "burst"
  /\ timer = <<>>
  /\ store = <<CurrentDocument>>
  /\ Len(nodes) >= 3

\* the document holds a node or an edge made before the clock read since
HoldsOlderThan(doc, since) ==
  \/ \E i \in 1..Len(doc.nodes) : doc.nodes[i].data.timestamp < since
  \/ \E i \in 1..Len(doc.edges) : doc.edges[i].target.n < since

\* C21: startNewConversation leaves exactly one fresh root message node and
\* no edge and removes the stored document; from then on the store never
\* holds a document with a node or an edge of the conversation before, also
\* when an autosave timeout was pending at the reset or a backend call of the
\* conversation before completes afterwards.
C21_ResetDiscards ==
  [][ /\ last'.op = "startNew" =>
            /\ nodes' = getInitialNodes(clock')
            /\ clock' > clock
            /\ edges' = <<>>
            /\ store' = <<>>
      /\ store' # <<>> =>
            ~HoldsOlderThan(store'[1], NodeById(RootId).timestamp')
    ]_vars

\* after a reset the store holds the document of the new conversation when
\* a backend call of the conversation before completes
C21_Witness ==
  /\ last.op = "deliver"
  /\ last.id \notin NodeIds
  /\ NodeById(RootId).timestamp > last.id.n
  /\ store # <<>>
  /\ Len(store[1].nodes) = 1
  /\ store[1].nodes[1].data.timestamp = NodeById(RootId).timestamp
  /\ timer # <<>>

\* the texts the completion of a call can put on its assistant node
Outcomes == (ReplyTexts \ {""}) \cup {NoResponse, CouldNotFetch}

\* ids of the assistant nodes that a submit can create when it reads the
\* clock after a startBranch and no later than MaxClock - 1
AssistantIds == {[pre |-> "ai", n |-> n] : n \in 2..(MaxClock - 1)}

ShowsThinking(id) == id \in NodeIds /\ NodeById(id).content = Thinking

\* C22: when every backend call returns or fails in the end, every assistant
\* placeholder created by submit that stays in the snapshot gets its content
\* replaced by the reply or by an error text, whatever the user does after
\* the submit (navigation, starting or cancelling other branches, export).
C22_PlaceholderReplaced ==
  \A id \in AssistantIds :
    ShowsThinking(id) ~> (id \notin NodeIds \/ NodeById(id).content \in Outcomes)

\* the reply arrived after the user had exported the graph, moved the focus
\* and opened another branch that is still pending
C22_Witness ==
  /\ last.op = "deliver"
  /\ last.id \in NodeIds
  /\ NodeById(last.id).content \in Outcomes
  /\ file # <<>>
  /\ \E i \in 1..Len(file[1].nodes) : file[1].nodes[i].data.content = Thinking
  /\ focusedNodeId # NullId
  /\ \E i \in 1..Len(nodes) :
        nodes[i].type = "inputNode" /\ nodes[i].timestamp > last.id.n

\* the graph ns / es holds what submit commits for the call to assistantId:
\* a user message node, the placeholder and the edge between them
SubmitCommitted(ns, es, assistantId) ==
  /\ \E i \in 1..Len(ns) :
        /\ ns[i].id = assistantId
        /\ ns[i].type = "message"
        /\ ns[i].role = "assistant"
        /\ ns[i].content = Thinking
  /\ \E k \in 1..Len(es) :
        /\ es[k].target = assistantId
        /\ \E i \in 1..Len(ns) :
              /\ ns[i].id = es[k].source
              /\ ns[i].type = "message"
              /\ ns[i].role = "user"
              /\ ns[i].content # ""

\* C23: the three updates of submit are in the graph from the step that
\* issues the backend call, and are still there, the placeholder showing
\* "Thinking...", when the reply or the error of that call is delivered.
C23_CommittedBeforeResult ==
  [][ /\ \A c \in calls' \ calls :
            /\ last'.op = "submit"
            /\ SubmitCommitted(nodes', edges', c.assistantId)
      /\ last'.op = "deliver" =>
            /\ \E c \in calls : c.assistantId = last'.id
            /\ SubmitCommitted(nodes, edges, last'.id)
    ]_vars

\* an error was delivered for one submit while the call of another, with its
\* placeholder, is in flight
C23_Witness ==
  /\ last.op = "deliver"
  /\ last.how = "transport"
  /\ NodeById(last.id).content = CouldNotFetch
  /\ ParentOf(last.id) \in NodeIds
  /\ NodeById(ParentOf(last.id)).role = "user"
  /\ \E c \in calls : SubmitCommitted(nodes, edges, c.assistantId)

\* C24: a failed backend call (rejected fetch or non-success response) leaves
\* the assistant node and its incoming edge in the graph and changes nothing
\* but the content of that node, which becomes the error text; the call is
\* retired and no other call is issued.
C24_FailureKeepsNode ==
  [][ (last'.op = "deliver" /\ last'.how \in {"transport", "rejected"}
         /\ last'.id \in NodeIds) =>
        /\ Len(nodes') = Len(nodes)
        /\ \A i \in 1..Len(nodes) :
              nodes'[i] = IF nodes[i].id = last'.id
                          THEN [nodes[i] EXCEPT !.content = OutcomeContent(last')]
                          ELSE nodes[i]
        /\ OutcomeContent(last') \in {CouldNotFetch, NoResponse}
        /\ edges' = edges
        /\ \E k \in 1..Len(edges') : edges'[k].target = last'.id
        /\ \E c \in calls : c.assistantId = last'.id /\ calls' = calls \ {c}
    ]_vars

\* a non-success response was delivered while another call, its placeholder
\* still showing "Thinking...", was in flight
C24_Witness ==
  /\ last.op = "deliver"
  /\ last.how = "rejected"
  /\ last.id \in NodeIds
  /\ NodeById(last.id).content = NoResponse
  /\ ParentOf(last.id) \in NodeIds
  /\ calls # {}
  /\ \E i \in 1..Len(nodes) : nodes[i].content = Thinking

\* the handlers of the user that touch no call
QuietOps == {"connectStart", "connectEnd", "startBranch", "cancel", "key",
             "export"}

\* every user operation is enabled: starting a branch from any message
\* node, submitting or cancelling any pending prompt, the navigation key to
\* the parent, export; ending the drag once one is in progress
UserOperationsEnabled ==
  IF Idle
  THEN /\ \A i \in 1..Len(nodes) :
             IF nodes[i].type = "message"
             THEN ENABLED onConnectStart(nodes[i].id)
             ELSE /\ ENABLED Submit(i, "hi", clock + 1, 0)
                  /\ ENABLED Cancel(i)
       /\ ENABLED handleKeyDown("ArrowUp")
       /\ ENABLED exportState
  ELSE ENABLED onConnectEnd(TRUE, [x |-> 0, y |-> 0], clock + 1)

\* C25: while backend calls are in flight every user operation is enabled,
\* leaves the calls in flight as they are, and acts on the snapshot of the
\* moment.  Enabledness is evaluated in the state before each completion,
\* that is, in every state with a call in flight.
C25_NotBlockedByCalls ==
  [][ calls # {} =>
        /\ last'.op = "deliver" => UserOperationsEnabled
        /\ last'.op \in QuietOps => calls' = calls
        /\ last'.op = "submit" =>
              /\ calls \subseteq calls'
              /\ Cardinality(calls') = Cardinality(calls) + 1
              /\ nodes' = Append(ConvertInput(nodes, last'.id, last'.text),
                                 nodes'[Len(nodes')])
        /\ last'.op = "startBranch" =>
              /\ nodes' = Append(nodes, nodes'[Len(nodes')])
              /\ edges' = Append(edges, edges'[Len(edges')])
        /\ last'.op = "cancel" =>
              /\ nodes' = RemoveNodeById(nodes, last'.id)
              /\ edges' = RemoveEdgesTo(edges, last'.id)
        /\ last'.op = "export" =>
              file' = <<JSONstringify(serializeState(nodes, edges))>>
        /\ last'.op = "key" =>
              focusedNodeId' \in NodeIds \cup {focusedNodeId}
    ]_vars

\* a branch was started while a call was in flight, after a navigation key
\* and an export made during that call; its prompt is pending beside the
\* placeholder
C25_Witness ==
  /\ last.op = "startBranch"
  /\ calls # {}
  /\ \E c \in calls : ShowsThinking(c.assistantId)
  /\ NodeById(last.id).type = "inputNode"
  /\ focusedNodeId # NullId
  /\ file # <<>>
  /\ \E i \in 1..Len(file[1].nodes) : file[1].nodes[i].data.content = Thinking

\* C26: submit converts the pending node in place (same id, position and
\* timestamp; type message, role user, content the submitted text), leaves
\* every other node and every edge as it was, and adds exactly one assistant
\* placeholder node and one edge from the user node to it.
C26_ConvertInPlace ==
  [][ last'.op = "submit" =>
        LET i == FindNode(nodes, last'.id)
            added == nodes'[Len(nodes')]
            link == edges'[Len(edges')]
        IN /\ i # 0
           /\ nodes[i].type = "inputNode"
           /\ Len(nodes') = Len(nodes) + 1
           /\ \A k \in 1..Len(nodes) : k # i => nodes'[k] = nodes[k]
           /\ nodes'[i].id = nodes[i].id
           /\ nodes'[i].position = nodes[i].position
           /\ nodes'[i].timestamp = nodes[i].timestamp
           /\ nodes'[i].type = "message"
           /\ nodes'[i].role = "user"
           /\ nodes'[i].content = last'.text
           /\ added.id = [pre |-> "ai", n |-> clock']
           /\ added.type = "message"
           /\ added.role = "assistant"
           /\ added.content = Thinking
           /\ Len(edges') = Len(edges) + 1
           /\ \A k \in 1..Len(edges) : edges'[k] = edges[k]
           /\ link.source = last'.id
           /\ link.target = added.id
    ]_vars

\* one of two pending prompts of the root was submitted; the other prompt,
\* the root and both edges from the root are as before
C26_Witness ==
  /\ last.op = "submit"
  /\ Len(nodes) = 4
  /\ Len(edges) = 3
  /\ \E i \in 1..Len(nodes) :
        /\ nodes[i].type = "inputNode"
        /\ ParentOf(nodes[i].id) = RootId
  /\ ParentOf(last.id) = RootId
  /\ NodeById(last.id).content = last.text

\* the node that follows id in ascending timestamp order, the oldest node
\* after the newest
SuccessorByTimestamp(id) ==
  LET later == {n \in NodeIds : TimestampOf(n) > TimestampOf(id)}
      from == IF later = {} THEN NodeIds ELSE later
  IN CHOOSE n \in from : \A m \in from : TimestampOf(n) <= TimestampOf(m)

\* the node reached from id by the given number of advances on this graph
RECURSIVE Advance(_, _)
Advance(id, steps) ==
  IF steps = 0 THEN id ELSE Advance(TabTarget(nodes, id), steps - 1)

\* C27: Tab from a focused node of the graph moves focus to the node next in
\* ascending timestamp order, from the newest node to the oldest; on a graph
\* of k nodes, k advances from any node visit every node once and end at the
\* node they started from.
C27_AdvanceCycles ==
  [][ (last'.op = "key" /\ last'.how = "Tab" /\ focusedNodeId \in NodeIds) =>
        LET k == Len(nodes) IN
        /\ focusedNodeId' = SuccessorByTimestamp(focusedNodeId)
        /\ \A id \in NodeIds :
              /\ Advance(id, k) = id
              /\ {Advance(id, j) : j \in 0..(k - 1)} = NodeIds
    ]_vars

\* Tab moved focus from the newest of four nodes to the oldest
C27_Witness ==
  /\ last.op = "key"
  /\ last.how = "Tab"
  /\ Len(nodes) >= 4
  /\ last.id \in NodeIds
  /\ last.id # focusedNodeId
  /\ \A n \in NodeIds : TimestampOf(n) <= TimestampOf(last.id)
  /\ \A n \in NodeIds : TimestampOf(focusedNodeId) <= TimestampOf(n)

\* sources of the edges into id
SourcesInto(id) ==
  {edges[k].source : k \in {j \in 1..Len(edges) : edges[j].target = id}}

\* C28: ArrowUp from a focused node of the graph moves focus to the source
\* of the edge into that node; from a node without incoming edge focus is
\* unchanged.
C28_ToParent ==
  [][ (last'.op = "key" /\ last'.how = "ArrowUp"
         /\ focusedNodeId \in NodeIds) =>
        LET parents == SourcesInto(focusedNodeId) IN
        IF parents = {} THEN focusedNodeId' = focusedNodeId
        ELSE /\ parents = {focusedNodeId'}
             /\ focusedNodeId' \in NodeIds
    ]_vars

\* ArrowUp moved focus from a reply to the user message it answers, which
\* has a parent of its own and a sibling
C28_Witness ==
  /\ last.op = "key"
  /\ last.how = "ArrowUp"
  /\ last.id \in NodeIds
  /\ last.id.pre = "ai"
  /\ focusedNodeId = ParentOf(last.id)
  /\ ParentOf(focusedNodeId) = RootId
  /\ Cardinality(ChildIds(RootId)) = 2

\* C29: the jump to the root focuses the node with id "root" if there is
\* one, else the node with the smallest timestamp; the jump to the latest
\* focuses the node with the greatest timestamp of the whole graph, wherever
\* the focus was; on an empty graph neither changes the focus.
C29_JumpTargets ==
  [][ last'.op = "cmdKey" =>
        IF NodeIds = {} THEN focusedNodeId' = focusedNodeId
        ELSE /\ focusedNodeId' \in NodeIds
             /\ last'.how = "ArrowUp" =>
                   IF RootId \in NodeIds THEN focusedNodeId' = RootId
                   ELSE \A n \in NodeIds :
                          TimestampOf(focusedNodeId') <= TimestampOf(n)
             /\ last'.how = "ArrowDown" =>
                   \A n \in NodeIds :
                     TimestampOf(n) <= TimestampOf(focusedNodeId')
    ]_vars

\* the jump to the latest moved focus from a reply to a pending prompt of
\* another branch, the newest node of the graph
C29_Witness ==
  /\ last.op = "cmdKey"
  /\ last.how = "ArrowDown"
  /\ last.id \in NodeIds
  /\ last.id.pre = "ai"
  /\ focusedNodeId \in NodeIds
  /\ NodeById(focusedNodeId).type = "inputNode"
  /\ ParentOf(focusedNodeId) # last.id
  /\ ParentOf(last.id) # ParentOf(focusedNodeId)

\* the document is one that importState accepts: a JSON object with nodes
\* and edges that are arrays, every node entry with its data record
WellFormedDocument(doc) ==
  /\ "syntaxError" \notin DOMAIN doc
  /\ "notArray" \notin DOMAIN doc
  /\ {"nodes", "edges"} \subseteq DOMAIN doc
  /\ \A i \in 1..Len(doc.nodes) : "data" \in DOMAIN doc.nodes[i]

\* the nodes ns and edges es are those of the document
SnapshotOfDocument(ns, es, doc) ==
  /\ Len(ns) = Len(doc.nodes)
  /\ Len(es) = Len(doc.edges)
  /\ \A i \in 1..Len(ns) :
        /\ ns[i].id = doc.nodes[i].id
        /\ ns[i].type = doc.nodes[i].type
        /\ ns[i].position = doc.nodes[i].position
        /\ ns[i].role = doc.nodes[i].data.role
        /\ ns[i].content = doc.nodes[i].data.content
        /\ ns[i].timestamp = doc.nodes[i].data.timestamp
  /\ \A i \in 1..Len(es) :
        /\ es[i].id = doc.edges[i].id
        /\ es[i].source = doc.edges[i].source
        /\ es[i].target = doc.edges[i].target

\* exactly the root message node of a fresh conversation, and no edge
SingleRoot(ns, es) ==
  /\ Len(ns) = 1
  /\ ns[1].id = RootId
  /\ ns[1].type = "message"
  /\ ns[1].role = "assistant"
  /\ ns[1].content = Greeting
  /\ es = <<>>

\* C30: at process start, with no stored document the snapshot is the single
\* root message node without edges; with a well-formed stored document it is
\* the nodes and edges of that document; with a malformed one it is the
\* single root node.
C30_StartFromStore ==
  [][ last'.op = "mount" =>
        IF store = <<>> THEN SingleRoot(nodes', edges')
        ELSE IF WellFormedDocument(store[1])
        THEN SnapshotOfDocument(nodes', edges', store[1])
        ELSE SingleRoot(nodes', edges')
    ]_vars

\* the process started on the stored document of a conversation with a user
\* turn and its delivered reply
C30_Witness ==
  /\ last.op = "mount"
  /\ last.how = "ok"
  /\ Len(nodes) = 3
  /\ Len(edges) = 2
  /\ \E i \in 1..Len(nodes) : nodes[i].role = "user" /\ nodes[i].type = "message"
  /\ \E i \in 1..Len(nodes) : nodes[i].content = "hello"
  /\ calls = {}
  /\ timer # <<>>


(***************************************************************************)
(* C31                                                                     *)
(***************************************************************************)
Submitted(n) == n.type = "message" /\ n.role = "user"

\* C31: Escape cancels only a node that is still a pending prompt and only
\* with a blank draft; a cancel removes the one pending prompt it was
\* pressed in, and every node a submit has converted stays in the snapshot.
C31_CancelOnlyBlankPending ==
  [][ /\ \A i \in 1..Len(nodes), draft \in Drafts :
           ENABLED InputNodeEscape(i, draft)
             => nodes[i].type = "inputNode" /\ Trim(draft) = ""
      /\ last'.op = "cancel" =>
           /\ \E i \in 1..Len(nodes) :
                nodes[i].id = last'.id /\ nodes[i].type = "inputNode"
           /\ \A i \in 1..Len(nodes) :
                nodes[i].type # "inputNode" =>
                  \E j \in 1..Len(nodes') : nodes'[j] = nodes[i]
           /\ \A i \in 1..Len(nodes) :
                nodes[i].id # last'.id =>
                  \E j \in 1..Len(nodes') : nodes'[j] = nodes[i]
    ]_vars

\* a cancel has removed a pending prompt beside a prompt already submitted
C31_Witness ==
  /\ last.op = "cancel"
  /\ last.id \notin NodeIds
  /\ \E i \in 1..Len(nodes) : Submitted(nodes[i])

(***************************************************************************)
(* C32                                                                     *)
(***************************************************************************)
EdgesResolve(ids, es) ==
  \A i \in 1..Len(es) : es[i].source \in ids /\ es[i].target \in ids

\* C32: in every state reached by startBranch, submit, cancel, reply
\* delivery, node drag and new conversation, every edge runs between two
\* nodes of the same snapshot; the same holds of the snapshot an autosave
\* timeout has captured and of the document in the durable store.  A handler
\* is one step, so no state lies between the removal of a node and the
\* removal of its edges.
C32_EdgesReferToNodes ==
  /\ EdgesResolve(NodeIds, edges)
  /\ \A k \in 1..Len(timer) :
       EdgesResolve({timer[k].nodes[i].id : i \in 1..Len(timer[k].nodes)},
                    timer[k].edges)
  /\ \A k \in 1..Len(store) :
       EdgesResolve({store[k].nodes[i].id : i \in 1..Len(store[k].nodes)},
                    store[k].edges)

\* a cancel has removed a prompt and its edge from a graph that was stored
\* with them and keeps another edge
C32_Witness ==
  /\ last.op = "cancel"
  /\ last.id \notin NodeIds
  /\ Len(edges) >= 1
  /\ store # <<>>
  /\ \E i \in 1..Len(store[1].edges) : store[1].edges[i].target = last.id

(***************************************************************************)
(* C33                                                                     *)
(***************************************************************************)
\* the nodes from which the nodes of ids are reached over at most k edges
RECURSIVE AncestorsWithin(_, _)
AncestorsWithin(ids, k) ==
  IF k = 0 THEN ids
  ELSE LET up == {edges[i].source : i \in {j \in 1..Len(edges) : edges[j].target \in ids}}
       IN up \cup AncestorsWithin(up, k - 1)

OnCycle(id) == id \in AncestorsWithin({id}, Len(edges))

\* C33: after a connection between two existing nodes every node is still the
\* target of at most one edge and no node is its own ancestor.
C33_JoinKeepsForest ==
  last.op = "connect" =>
    /\ \A id \in NodeIds : InDegree(id) <= 1
    /\ \A id \in NodeIds : ~OnCycle(id)

(***************************************************************************)
(* C34                                                                     *)
(***************************************************************************)
\* the ids getContextForNode visits from id, in order of the visits, as far
\* as fuel reaches
RECURSIVE Visited(_, _)
Visited(id, fuel) ==
  IF id = NullId \/ fuel = 0 \/ FindNode(nodes, id) = 0 THEN <<>>
  ELSE LET e == FindParentEdge(edges, id) IN
       <<id>> \o Visited(IF e # 0 THEN edges[e].source ELSE NullId, fuel - 1)

\* C34: from every node of the snapshot the walk of getContextForNode comes
\* to an end and visits no node twice; at a node with several incoming edges
\* it goes on to the source of the first of them in edge order.
C34_ResolveTerminates ==
  \A id \in NodeIds :
    /\ getContextForNodeReturns(id, nodes, edges)
    /\ LET v == Visited(id, Len(nodes) + 1) IN
         /\ \A i, j \in 1..Len(v) : i # j => v[i] # v[j]
         /\ \A i \in 1..(Len(v) - 1) :
              \E k \in 1..Len(edges) :
                /\ edges[k].target = v[i] /\ edges[k].source = v[i + 1]
                /\ \A m \in 1..(k - 1) : edges[m].target # v[i]

(***************************************************************************)
(* C35                                                                     *)
(***************************************************************************)
Incident(edge, id) == edge.source = id \/ edge.target = id

\* C35: a node drag keeps the nodes, but for the position of the dragged
\* one, and keeps the edges in number and order; of an edge at the dragged
\* node it changes at most sourceHandle and targetHandle, and every other
\* edge it leaves as it was.
C35_DragReroutesOnly ==
  [][ last'.op = "drag" =>
        /\ Len(nodes') = Len(nodes)
        /\ \A i \in 1..Len(nodes) :
             IF nodes[i].id = last'.id
             THEN [nodes'[i] EXCEPT !.position = nodes[i].position] = nodes[i]
             ELSE nodes'[i] = nodes[i]
        /\ Len(edges') = Len(edges)
        /\ \A i \in 1..Len(edges) :
             IF Incident(edges[i], last'.id)
             THEN [edges'[i] EXCEPT !.sourceHandle = edges[i].sourceHandle,
                                    !.targetHandle = edges[i].targetHandle]
                    = edges[i]
             ELSE edges'[i] = edges[i]
    ]_vars

\* a reply node was dragged to the right of its prompt: the edge between
\* them leaves the prompt on the right, the edge above them is as before
C35_Witness ==
  /\ last.op = "drag"
  /\ \E i \in 1..Len(edges) :
       /\ edges[i].target = last.id
       /\ edges[i].sourceHandle = "right"
       /\ edges[i].targetHandle = "left-target"
  /\ \E i \in 1..Len(edges) :
       /\ ~Incident(edges[i], last.id)
       /\ edges[i].sourceHandle = "bottom"

(***************************************************************************)
(* C36                                                                     *)
(***************************************************************************)
WriteFailed(l) == l.op \in {"autosave", "save"} /\ l.how = "failed"

\* every operation on the graph is enabled: starting a branch from any
\* message node, submitting or cancelling any pending prompt; ending the
\* drag once one is in progress
GraphOperationsEnabled ==
  IF Idle
  THEN \A i \in 1..Len(nodes) :
         IF nodes[i].type = "message"
         THEN ENABLED onConnectStart(nodes[i].id)
         ELSE /\ ENABLED Submit(i, "hi", clock + 1, 0)
              /\ ENABLED Cancel(i)
  ELSE ENABLED onConnectEnd(TRUE, [x |-> 0, y |-> 0], clock + 1)

\* C36: a write to localStorage that fails changes neither the snapshot nor
\* the stored document nor the calls in flight; in the state it leaves every
\* operation on the graph is enabled, and every change of nodes or edges,
\* after a failure as before, leaves one autosave timeout pending that has
\* the full delay ahead and holds the changed nodes and edges.
C36_WriteFailureSwallowed ==
  [][ /\ WriteFailed(last') =>
           UNCHANGED <<nodes, edges, store, calls, file, connectingNodeId,
                       connectingHandleId, focusedNodeId, clock>>
      /\ WriteFailed(last) => GraphOperationsEnabled
      /\ (nodes' # nodes \/ edges' # edges) =>
           /\ Len(timer') = 1
           /\ ~timer'[1].elapsed
           /\ timer'[1].nodes = nodes'
           /\ timer'[1].edges = edges'
    ]_vars

\* the autosave of a graph with a submitted prompt has failed while the call
\* is in flight: nothing is stored and no timeout is pending
C36_Witness ==
  /\ last.op = "autosave"
  /\ last.how = "failed"
  /\ store = <<>>
  /\ timer = <<>>
  /\ calls # {}
  /\ \E i \in 1..Len(nodes) : nodes[i].content = Thinking

(***************************************************************************)
(* C37                                                                     *)
(***************************************************************************)
\* C37: after a navigation key press on a graph with nodes, the recorded
\* focus is unset or the id of a node of the snapshot.
C37_FocusOnPresentNode ==
  (last.op = "key" /\ Len(nodes) > 0) =>
    (focusedNodeId = NullId \/ focusedNodeId \in NodeIds)

(***************************************************************************)
(* C38                                                                     *)
(***************************************************************************)
\* C38: the first render of a process sets no autosave timeout and leaves
\* the stored document alone; the only step out of the state it leaves,
\* but for another process start, is the load effect, which reads the
\* document and does not write it; a timeout pending after the load holds
\* the snapshot restored from the document.  So every write of the process comes after its restore
\* attempt, and none stores the default graph over a document not yet read.
C38_NoSaveBeforeRestore ==
  [][ /\ last'.op = "render" => timer' = <<>> /\ store' = store
      /\ ~isInitialized =>
           /\ last'.op \in {"load", "render"}
           /\ store' = store
           /\ timer' # <<>> =>
                /\ last'.how = "ok"
                /\ SnapshotOfDocument(timer'[1].nodes, timer'[1].edges, store[1])
      /\ last'.op = "autosave" => isInitialized
    ]_vars

\* a process started on a stored document with a submitted prompt and its
\* reply, and restored it
C38_Witness ==
  /\ last.op = "load"
  /\ last.how = "ok"
  /\ store # <<>>
  /\ SnapshotOfDocument(nodes, edges, store[1])
  /\ \E i \in 1..Len(nodes) : nodes[i].content = "hello"
  /\ timer # <<>>

(***************************************************************************)
(* C39                                                                     *)
(***************************************************************************)
StoreIsCurrent == timer = <<>> /\ store = <<CurrentDocument>>

\* C39: once nodes or edges have changed, which leaves an autosave timeout
\* pending, the durable store comes to hold the serialization of the nodes
\* and edges committed last, delivered replies included, with no timeout
\* left; it holds that document for as long as nodes and edges stay as they
\* are.
C39_StoreCatchesUp ==
  /\ (timer # <<>>) ~> StoreIsCurrent
  /\ [][ (store = <<CurrentDocument>> /\ nodes' = nodes /\ edges' = edges)
           => store' = store ]_vars

\* the store holds the graph with a submitted prompt and its delivered
\* reply, and no timeout is pending
C39_Witness ==
  /\ StoreIsCurrent
  /\ last.op = "autosave"
  /\ \E i \in 1..Len(store[1].nodes) : store[1].nodes[i].data.content = "hello"
  /\ \E i \in 1..Len(nodes) : nodes[i].content = "hello"

(***************************************************************************)
(* C40                                                                     *)
(***************************************************************************)
SearchResults == results(nodes, last.text)

SearchTextLength(id) == Len(normalizeText(getNodeSearchText(NodeById(id))))

\* C40 as stated: in the results of a query every node matched by substring
\* stands before every node matched by subsequence only, its score being
\* strictly lower.
C40_SubstringFirst ==
  last.op = "search" =>
    \A i, j \in 1..Len(SearchResults) :
      (SearchResults[i].matchType = "substring"
         /\ SearchResults[j].matchType = "subsequence")
      => (i < j /\ SearchResults[i].score < SearchResults[j].score)

\* C40: the same for every node matched by substring whose search
\* text has at most 182 characters.
C40_SubstringFirstInShortTexts ==
  last.op = "search" =>
    \A i, j \in 1..Len(SearchResults) :
      (SearchResults[i].matchType = "substring"
         /\ SearchTextLength(SearchResults[i].node) <= 182
         /\ SearchResults[j].matchType = "subsequence")
      => (i < j /\ SearchResults[i].score < SearchResults[j].score)

\* the query is found at the end of a search text of 182 characters, behind
\* the filler, and as a subsequence in the short text of the other node
C40_Witness ==
  /\ last.op = "search"
  /\ Len(SearchResults) = 2
  /\ SearchResults[1].matchType = "substring"
  /\ SearchTextLength(SearchResults[1].node) = 182
  /\ SearchResults[1].score = 1980
  /\ SearchResults[2].matchType = "subsequence"
  /\ SearchResults[2].score < 2100
====
